---- MODULE Spec2Model ----
(***************************************************************************)
(* A model of the container engine of mosh.py: RIFF/AVI parsing, the       *)
(* correlation of movi with idx1, the frame selection pass, the rebuilding *)
(* of movi/idx1 and the rewrite orchestrator.                              *)
(*                                                                         *)
(* Bytes are the integers 0..255, byte strings are sequences of bytes, and *)
(* Python offsets are kept 0-based as in the source (At, Slice).           *)
(* Optional values are sequences of length at most one: <<>> is None and   *)
(* <<v>> is the value v.                                                   *)
(***************************************************************************)
EXTENDS Integers, Sequences, FiniteSets, TLC

VARIABLES
    pc,            \* position of the running operation
    policy,        \* the policy arguments of process_chunks / rewrite_avi
    chunks,        \* the chunk sequence handed to process_chunks
    loop,          \* locals of the process_chunks pass
    built,         \* result of build_movi_and_index
    disk,          \* files: the source, the appended inputs, the output
    extra_inputs,  \* the appended paths of rewrite_avi, in argument order
    clip_index,    \* position of rewrite_avi in extra_inputs (from 1)
    base,          \* AviStructure of the base file
    header_offsets,\* AviHeaderOffsets located in the base prefix
    payload,       \* movi payload handed to parse_movi_chunks
    idx_entries,   \* idx1 entries handed to parse_movi_chunks
    fault,         \* how the parser input was derived from a consistent one
    spec,          \* the argument of parse_keyframe_spec, a character string
    manager,       \* ShortcutManager: its shortcuts dict and the root's bindings
    call,          \* the last call made on the manager, with its arguments
    heap,          \* the AviChunk objects of a pass, by object id
    result         \* outcome of the last operation: [err, ...]

vars == <<pc, policy, chunks, loop, built, disk, extra_inputs, clip_index,
          base, header_offsets, payload, idx_entries, fault, spec, manager,
          call, heap, result>>

----------------------------------------------------------------------------
(* Bounds of the model.                                                    *)

MaxChunks == 3      \* chunks handed to process_chunks
MaxClips == 2       \* clip ids 0 .. MaxClips-1
MaxKeep == 2        \* keep_initial_keyframes ranges over 0..MaxKeep
MaxDup == 2         \* duplicate_count ranges over 0..MaxDup
MaxGap == 2         \* duplicate_gap ranges over 1..MaxGap

----------------------------------------------------------------------------
(* Bytes and byte strings.                                                 *)

Min(a, b) == IF a < b THEN a ELSE b

None == <<>>
Some(v) == <<v>>
IsNone(o) == Len(o) = 0
Val(o) == o[1]

\* data[offset] of Python, 0-based.
At(data, offset) == data[offset + 1]

\* data[a:b] of Python for 0 <= a, 0 <= b: clipped to the length of data.
Slice(data, a, b) == SubSeq(data, a + 1, Min(b, Len(data)))

\* data[a:] of Python.
SliceFrom(data, a) == SubSeq(data, a + 1, Len(data))

\* struct.pack("<I", value)
pack_le(value) ==
    << value % 256, (value \div 256) % 256,
       (value \div 65536) % 256, (value \div 16777216) % 256 >>

\* struct.unpack_from("<I", data, offset) needs four bytes at offset.
CanRead(data, offset) == offset >= 0 /\ offset + 4 <= Len(data)

read_le_uint(data, offset) ==
    At(data, offset) + 256 * At(data, offset + 1)
        + 65536 * At(data, offset + 2) + 16777216 * At(data, offset + 3)

\* struct.pack_into("<I", buffer, offset, value): the buffer with the four
\* bytes at offset replaced (defined when CanRead(buffer, offset)).
pack_le_uint(buffer, offset, value) ==
    [k \in 1..Len(buffer) |->
        IF k > offset /\ k <= offset + 4
        THEN pack_le(value)[k - offset]
        ELSE buffer[k]]

\* The four-character codes the engine looks at.
RIFF == <<82, 73, 70, 70>>
AVI_ == <<65, 86, 73, 32>>
LIST == <<76, 73, 83, 84>>
movi == <<109, 111, 118, 105>>
idx1 == <<105, 100, 120, 49>>
hdrl == <<104, 100, 114, 108>>
avih == <<97, 118, 105, 104>>
strl == <<115, 116, 114, 108>>
strh == <<115, 116, 114, 104>>
vids == <<118, 105, 100, 115>>
auds == <<97, 117, 100, 115>>
odml == <<111, 100, 109, 108>>
dmlh == <<100, 109, 108, 104>>
JUNK == <<74, 85, 78, 75>>
Tag00dc == <<48, 48, 100, 99>>
Tag01dc == <<48, 49, 100, 99>>
Tag00db == <<48, 48, 100, 98>>
Tag01wb == <<48, 49, 119, 98>>

AVIIF_KEYFRAME == 16

\* flags & AVIIF_KEYFRAME
HasKeyBit(flags) == (flags \div AVIIF_KEYFRAME) % 2 = 1

\* flags & ~AVIIF_KEYFRAME
ClearKeyBit(flags) == IF HasKeyBit(flags) THEN flags - AVIIF_KEYFRAME ELSE flags

----------------------------------------------------------------------------
(* Chunk extraction: parse_idx1, parse_movi_chunks.                        *)

IsDigit(b) == b >= 48 /\ b <= 57

_parse_stream_id(chunk_id) ==
    IF Len(chunk_id) >= 2 /\ IsDigit(chunk_id[1]) /\ IsDigit(chunk_id[2])
    THEN Some(10 * (chunk_id[1] - 48) + (chunk_id[2] - 48))
    ELSE None

\* The AviChunk built at lines 199-216 from a tag, its index flags and data.
MakeChunk(chunk_id, flags, data, clip_id) ==
    LET stream_id == _parse_stream_id(chunk_id)
        suffix == SliceFrom(chunk_id, 2)
        is_video == suffix \in {<<100, 99>>, <<100, 98>>} /\ ~IsNone(stream_id)
    IN  [ chunk_id |-> chunk_id, flags |-> flags, data |-> data,
          is_video |-> is_video,
          is_keyframe |-> HasKeyBit(flags) /\ is_video,
          stream_id |-> stream_id, clip_id |-> clip_id ]

Fail(kind) == [err |-> kind]
AviParseError == "AviParseError"
StructError == "struct.error"
ValueError == "ValueError"

RECURSIVE Idx1Loop(_, _, _, _)
Idx1Loop(data, pos, end, entries) ==
    IF pos + 16 <= end
    THEN IF ~CanRead(data, pos + 12)
         THEN Fail(StructError)
         ELSE Idx1Loop(data, pos + 16, end,
                  Append(entries,
                      [ chunk_id |-> Slice(data, pos, pos + 4),
                        flags |-> read_le_uint(data, pos + 4),
                        offset |-> read_le_uint(data, pos + 8),
                        size |-> read_le_uint(data, pos + 12) ]))
    ELSE IF pos # end
         THEN Fail(AviParseError)
         ELSE [err |-> "", entries |-> entries]

parse_idx1(data, idx1_pos, idx1_size) ==
    Idx1Loop(data, idx1_pos + 8, idx1_pos + 8 + idx1_size, <<>>)

\* Variant of EntryError: the offset of the entry is not compared.
EntryError_NoOffsetCheck(e, chunk_id, chunk_size, pos) ==
    IF e.chunk_id # chunk_id THEN AviParseError
    ELSE IF e.size # chunk_size THEN AviParseError
    ELSE ""

\* Variant of EntryError: the offset of an entry is compared with the
\* position of the chunk in the payload.
EntryError_FromPayload(e, chunk_id, chunk_size, pos) ==
    IF e.chunk_id # chunk_id THEN AviParseError
    ELSE IF e.size # chunk_size THEN AviParseError
    ELSE IF e.offset # pos THEN AviParseError
    ELSE ""

\* Lines 187-198: the index entry against the chunk read at pos.
EntryError(e, chunk_id, chunk_size, pos) ==
    IF e.chunk_id # chunk_id THEN AviParseError
    ELSE IF e.size # chunk_size THEN AviParseError
    ELSE IF e.offset # pos + 4 THEN AviParseError
    ELSE ""

RECURSIVE MoviLoop(_, _, _, _, _, _)
MoviLoop(movi_payload, entries, clip_id, pos, entry_idx, acc) ==
    IF pos + 8 <= Len(movi_payload)
    THEN LET chunk_id == Slice(movi_payload, pos, pos + 4)
             chunk_size == read_le_uint(movi_payload, pos + 4)
             chunk_data_start == pos + 8
             chunk_data_end == chunk_data_start + chunk_size
         IN  IF chunk_id = LIST THEN Fail(AviParseError)
             ELSE IF chunk_data_end > Len(movi_payload) THEN Fail(AviParseError)
             ELSE IF entry_idx >= Len(entries) THEN Fail(AviParseError)
             ELSE LET e == entries[entry_idx + 1] IN
                  IF EntryError(e, chunk_id, chunk_size, pos) # ""
                  THEN Fail(EntryError(e, chunk_id, chunk_size, pos))
                  ELSE MoviLoop(movi_payload, entries, clip_id,
                           chunk_data_end + (chunk_size % 2), entry_idx + 1,
                           Append(acc,
                               MakeChunk(chunk_id, e.flags,
                                   Slice(movi_payload, chunk_data_start, chunk_data_end),
                                   clip_id)))
    ELSE IF entry_idx # Len(entries)
         THEN Fail(AviParseError)
         ELSE [err |-> "", chunks |-> acc]

parse_movi_chunks(movi_payload, entries, clip_id) ==
    MoviLoop(movi_payload, entries, clip_id, 0, 0, <<>>)

----------------------------------------------------------------------------
(* Container scanner and file parser: locate_chunks, parse_avi_file.       *)

\* pos + 8 + size, rounded up to even (lines 111-113 and their copies).
ChunkEnd(pos, chunk_size) == pos + 8 + chunk_size + (chunk_size % 2)

\* Variant of LocateLoop: the walk goes on to the end of the data after both
\* chunks have been found.
RECURSIVE LocateLoop_NoStop(_, _, _, _)
LocateLoop_NoStop(data, pos, found_movi, found_idx1) ==
    IF pos + 8 <= Len(data)
    THEN LET chunk_id == Slice(data, pos, pos + 4)
             chunk_size == read_le_uint(data, pos + 4)
         IN  IF chunk_id = LIST /\ pos + 12 > Len(data)
             THEN Fail(AviParseError)
             ELSE LET m == IF chunk_id = LIST /\ Slice(data, pos + 8, pos + 12) = movi
                           THEN Some(<<pos, chunk_size>>) ELSE found_movi
                      x == IF chunk_id = idx1
                           THEN Some(<<pos, chunk_size>>) ELSE found_idx1
                  IN  LocateLoop_NoStop(data, ChunkEnd(pos, chunk_size), m, x)
    ELSE [err |-> "", found_movi |-> found_movi, found_idx1 |-> found_idx1]

\* Lines 108-127; found_movi and found_idx1 are optional <<pos, size>>.
RECURSIVE LocateLoop(_, _, _, _)
LocateLoop(data, pos, found_movi, found_idx1) ==
    IF pos + 8 <= Len(data)
    THEN LET chunk_id == Slice(data, pos, pos + 4)
             chunk_size == read_le_uint(data, pos + 4)
         IN  IF chunk_id = LIST /\ pos + 12 > Len(data)
             THEN Fail(AviParseError)
             ELSE LET m == IF chunk_id = LIST /\ Slice(data, pos + 8, pos + 12) = movi
                           THEN Some(<<pos, chunk_size>>) ELSE found_movi
                      x == IF chunk_id = idx1
                           THEN Some(<<pos, chunk_size>>) ELSE found_idx1
                  IN  IF ~IsNone(m) /\ ~IsNone(x)
                      THEN [err |-> "", found_movi |-> m, found_idx1 |-> x]
                      ELSE LocateLoop(data, ChunkEnd(pos, chunk_size), m, x)
    ELSE [err |-> "", found_movi |-> found_movi, found_idx1 |-> found_idx1]

\* Position of the first top-level chunk: the RIFF header is skipped.
FirstChunkPos == 12

locate_chunks(data) ==
    LET r == LocateLoop(data, FirstChunkPos, None, None) IN
    IF r.err # "" THEN Fail(r.err)
    ELSE IF IsNone(r.found_movi) THEN Fail(AviParseError)
    ELSE IF IsNone(r.found_idx1) THEN Fail(AviParseError)
    ELSE [ err |-> "",
           movi_pos |-> Val(r.found_movi)[1], movi_size |-> Val(r.found_movi)[2],
           idx1_pos |-> Val(r.found_idx1)[1], idx1_size |-> Val(r.found_idx1)[2] ]

parse_avi_file(data, clip_id) ==
    IF Slice(data, 0, 4) # RIFF \/ Slice(data, 8, 12) # AVI_
    THEN Fail(AviParseError)
    ELSE
    LET loc == locate_chunks(data) IN
    IF loc.err # "" THEN Fail(loc.err)
    ELSE
    LET movi_payload == Slice(data, loc.movi_pos + 12, loc.movi_pos + 8 + loc.movi_size)
        idx == parse_idx1(data, loc.idx1_pos, loc.idx1_size)
    IN  IF idx.err # "" THEN Fail(idx.err)
        ELSE
        LET parsed == parse_movi_chunks(movi_payload, idx.entries, clip_id) IN
        IF parsed.err # "" THEN Fail(parsed.err)
        ELSE [ err |-> "",
               prefix |-> Slice(data, 0, loc.movi_pos),
               between |-> Slice(data, loc.movi_pos + 8 + loc.movi_size, loc.idx1_pos),
               suffix |-> SliceFrom(data, loc.idx1_pos + 8 + loc.idx1_size),
               chunks |-> parsed.chunks ]

----------------------------------------------------------------------------
(* Header locator: find_header_offsets and the walks below it.             *)

\* Offsets of the fields inside their chunks' data.
AvihTotalFrames == 16
StrhLength == 32

\* Variant of StreamLengthLoop: the first stream header is taken whatever
\* its type.
RECURSIVE StreamLengthLoop_AnyType(_, _, _)
StreamLengthLoop_AnyType(data, pos, end) ==
    IF pos + 8 <= end
    THEN IF ~CanRead(data, pos + 4) THEN Fail(StructError)
         ELSE IF Slice(data, pos, pos + 4) = strh
              THEN [err |-> "", offset |-> Some(pos + 8 + StrhLength)]
              ELSE StreamLengthLoop_AnyType(data,
                       ChunkEnd(pos, read_le_uint(data, pos + 4)), end)
    ELSE [err |-> "", offset |-> None]

\* _find_video_stream_length: the optional offset, or a failed read.
RECURSIVE StreamLengthLoop(_, _, _)
StreamLengthLoop(data, pos, end) ==
    IF pos + 8 <= end
    THEN IF ~CanRead(data, pos + 4) THEN Fail(StructError)
         ELSE IF Slice(data, pos, pos + 4) = strh
                 /\ Slice(data, pos + 8, pos + 12) = vids
              THEN [err |-> "", offset |-> Some(pos + 8 + StrhLength)]
              ELSE StreamLengthLoop(data,
                       ChunkEnd(pos, read_le_uint(data, pos + 4)), end)
    ELSE [err |-> "", offset |-> None]

\* _collect_odml_offsets: the collector extended, or a failed read.
RECURSIVE OdmlLoop(_, _, _, _)
OdmlLoop(data, pos, end, collector) ==
    IF pos + 8 <= end
    THEN IF ~CanRead(data, pos + 4) THEN Fail(StructError)
         ELSE OdmlLoop(data, ChunkEnd(pos, read_le_uint(data, pos + 4)), end,
                  IF Slice(data, pos, pos + 4) = dmlh
                  THEN Append(collector, pos + 8) ELSE collector)
    ELSE [err |-> "", collector |-> collector]

\* _parse_hdrl_for_offsets; found is the AviHeaderOffsets collected so far.
RECURSIVE HdrlLoop(_, _, _, _)
HdrlLoop(data, pos, end, found) ==
    IF pos + 8 <= end
    THEN IF ~CanRead(data, pos + 4) THEN Fail(StructError)
         ELSE
         LET chunk_id == Slice(data, pos, pos + 4)
             chunk_size == read_le_uint(data, pos + 4)
             sub_type == Slice(data, pos + 8, pos + 12)
             next == ChunkEnd(pos, chunk_size)
         IN  IF chunk_id = avih /\ IsNone(found.total_frames)
             THEN HdrlLoop(data, next, end,
                      [found EXCEPT !.total_frames = Some(pos + 8 + AvihTotalFrames)])
             ELSE IF chunk_id = LIST /\ sub_type = strl
                     /\ IsNone(found.video_stream_length)
             THEN LET v == StreamLengthLoop(data, pos + 12, pos + 8 + chunk_size) IN
                  IF v.err # "" THEN Fail(v.err)
                  ELSE HdrlLoop(data, next, end,
                           [found EXCEPT !.video_stream_length = v.offset])
             ELSE IF chunk_id = LIST /\ sub_type = odml
             THEN LET o == OdmlLoop(data, pos + 12, pos + 8 + chunk_size,
                                    found.odml_total_frames) IN
                  IF o.err # "" THEN Fail(o.err)
                  ELSE HdrlLoop(data, next, end,
                           [found EXCEPT !.odml_total_frames = o.collector])
             ELSE HdrlLoop(data, next, end, found)
    ELSE [err |-> "", found |-> found]

\* Lines 252-272 of find_header_offsets.
RECURSIVE TopLoop(_, _, _)
TopLoop(prefix, pos, found) ==
    IF pos + 8 <= Len(prefix)
    THEN LET chunk_id == Slice(prefix, pos, pos + 4)
             chunk_size == read_le_uint(prefix, pos + 4)
         IN  IF chunk_id = LIST /\ pos + 12 > Len(prefix)
             THEN [err |-> "", found |-> found]
             ELSE IF chunk_id = LIST /\ Slice(prefix, pos + 8, pos + 12) = hdrl
             THEN LET h == HdrlLoop(prefix, pos + 12, pos + 8 + chunk_size, found) IN
                  IF h.err # "" THEN Fail(h.err)
                  ELSE TopLoop(prefix, ChunkEnd(pos, chunk_size), h.found)
             ELSE TopLoop(prefix, ChunkEnd(pos, chunk_size), found)
    ELSE [err |-> "", found |-> found]

NoOffsets ==
    [ total_frames |-> None, video_stream_length |-> None,
      odml_total_frames |-> <<>> ]

find_header_offsets(prefix) == TopLoop(prefix, FirstChunkPos, NoOffsets)

\* Variant of WriteOrder: the extended-index fields are left out.
WriteOrder_NoOdml(offsets) ==
    offsets.total_frames \o offsets.video_stream_length

\* The offsets update_header_counts writes at, in the order it writes.
WriteOrder(offsets) ==
    offsets.total_frames \o offsets.video_stream_length \o offsets.odml_total_frames

RECURSIVE PatchLoop(_, _, _, _)
PatchLoop(prefix, order, k, total_frames) ==
    IF k > Len(order) THEN [err |-> "", prefix |-> prefix]
    ELSE IF ~CanRead(prefix, order[k]) THEN Fail(StructError)
    ELSE PatchLoop(pack_le_uint(prefix, order[k], total_frames), order, k + 1,
             total_frames)

\* update_header_counts: the patched prefix, or a failed write.
update_header_counts(prefix, offsets, total_frames) ==
    PatchLoop(prefix, WriteOrder(offsets), 1, total_frames)

----------------------------------------------------------------------------
(* Frame selection: process_chunks.                                        *)

ClipIds == 0 .. (MaxClips - 1)

\* AviChunk.clone: a new record with the same seven fields.
clone(chunk) ==
    [ chunk_id |-> chunk.chunk_id, flags |-> chunk.flags, data |-> chunk.data,
      is_video |-> chunk.is_video, is_keyframe |-> chunk.is_keyframe,
      stream_id |-> chunk.stream_id, clip_id |-> chunk.clip_id ]

\* Variant of ResolveOptions: the default for appended clips also applies to
\* a clip that has an entry.
ResolveOptions_DefaultKept(pol, clip_id) ==
    IF clip_id \in DOMAIN pol.clip_options
    THEN LET options == pol.clip_options[clip_id] IN
         [ keep_limit |-> options.keep_initial_keyframes,
           dup_count |-> options.duplicate_count,
           dup_gap |-> options.duplicate_gap,
           drop_first |-> options.drop_first_keyframe
                              \/ (pol.drop_appended_first /\ clip_id # 0),
           keep_set |-> options.keep_specific_keys,
           drop_set |-> options.drop_specific_keys ]
    ELSE [ keep_limit |-> pol.keep_initial_keyframes,
           dup_count |-> pol.duplicate_count,
           dup_gap |-> pol.duplicate_gap,
           drop_first |-> pol.drop_appended_first /\ clip_id # 0,
           keep_set |-> None,
           drop_set |-> None ]

\* Lines 372-378: the policy of the clip of a video chunk. clip_options is a
\* mapping clip id -> ClipOptions; an absent or empty mapping gives None.
ResolveOptions(pol, clip_id) ==
    IF clip_id \in DOMAIN pol.clip_options
    THEN LET options == pol.clip_options[clip_id] IN
         [ keep_limit |-> options.keep_initial_keyframes,
           dup_count |-> options.duplicate_count,
           dup_gap |-> options.duplicate_gap,
           drop_first |-> options.drop_first_keyframe,
           keep_set |-> options.keep_specific_keys,
           drop_set |-> options.drop_specific_keys ]
    ELSE [ keep_limit |-> pol.keep_initial_keyframes,
           dup_count |-> pol.duplicate_count,
           dup_gap |-> pol.duplicate_gap,
           drop_first |-> pol.drop_appended_first /\ clip_id # 0,
           keep_set |-> None,
           drop_set |-> None ]

\* "s is not None and k in s"
InOpt(k, s) == ~IsNone(s) /\ k \in Val(s)

\* Variant of KeepKeyframe: the keep-sets are consulted before the drop-sets.
KeepKeyframe_KeepSetsFirst(clip, pol, clip_key_index, global_key_index, keys_kept) ==
    IF clip.drop_first /\ clip_key_index = 0 THEN FALSE
    ELSE IF InOpt(clip_key_index, clip.keep_set) THEN TRUE
    ELSE IF InOpt(global_key_index, pol.keep_key_indices) THEN TRUE
    ELSE IF InOpt(clip_key_index, clip.drop_set) THEN FALSE
    ELSE IF InOpt(global_key_index, pol.drop_key_indices) THEN FALSE
    ELSE IF keys_kept >= clip.keep_limit THEN FALSE
    ELSE TRUE

\* Variant of KeepKeyframe: the quota test is off by one (> for >=).
KeepKeyframe_QuotaOffByOne(clip, pol, clip_key_index, global_key_index, keys_kept) ==
    IF clip.drop_first /\ clip_key_index = 0 THEN FALSE
    ELSE IF InOpt(clip_key_index, clip.drop_set) THEN FALSE
    ELSE IF InOpt(global_key_index, pol.drop_key_indices) THEN FALSE
    ELSE IF InOpt(clip_key_index, clip.keep_set) THEN TRUE
    ELSE IF InOpt(global_key_index, pol.keep_key_indices) THEN TRUE
    ELSE IF keys_kept > clip.keep_limit THEN FALSE
    ELSE TRUE

\* Lines 387-400: the value of keep after the if/elif chain.
KeepKeyframe(clip, pol, clip_key_index, global_key_index, keys_kept) ==
    IF clip.drop_first /\ clip_key_index = 0 THEN FALSE
    ELSE IF InOpt(clip_key_index, clip.drop_set) THEN FALSE
    ELSE IF InOpt(global_key_index, pol.drop_key_indices) THEN FALSE
    ELSE IF InOpt(clip_key_index, clip.keep_set) THEN TRUE
    ELSE IF InOpt(global_key_index, pol.keep_key_indices) THEN TRUE
    ELSE IF keys_kept >= clip.keep_limit THEN FALSE
    ELSE TRUE

\* Variant of DuplicateNow: copies follow only the first predicted frame that
\* meets the cadence.
DuplicateNow_OnlyFirst(clip, p_counter) ==
    clip.dup_count > 0 /\ p_counter = clip.dup_gap

\* Variant of DuplicateNow: the cadence is tested on the counter before its
\* increment.
DuplicateNow_BeforeIncrement(clip, p_counter) ==
    clip.dup_count > 0 /\ (p_counter - 1) % clip.dup_gap = 0

\* Line 414: whether copies follow the predicted frame just emitted.
DuplicateNow(clip, p_counter) ==
    clip.dup_count > 0 /\ p_counter % clip.dup_gap = 0

\* Lines 416-419: one inserted copy.
DuplicateOf(chunk) ==
    [clone(chunk) EXCEPT !.flags = ClearKeyBit(chunk.flags), !.is_keyframe = FALSE]

\* Lines 415-420: the copies appended after a predicted frame.
Copies(chunk, n) == [k \in 1..n |-> DuplicateOf(chunk)]

\* Lines 360-364: the locals before the first iteration.
LoopInit ==
    [ i |-> 1,
      processed |-> <<>>,
      global_key_index |-> 0,
      per_clip_key_index |-> [c \in ClipIds |-> 0],
      per_clip_keys_kept |-> [c \in ClipIds |-> 0],
      per_clip_p_counter |-> [c \in ClipIds |-> 0],
      err |-> "" ]

\* Variant of ArgsValid: only the duplicate count is checked.
ArgsValid_CountOnly(pol) == pol.duplicate_count >= 0

\* Lines 355-358: the checks on the global arguments.
ArgsValid(pol) == pol.duplicate_count >= 0 /\ pol.duplicate_gap > 0

\* Lines 366-369: a chunk that is not video is copied to the output.
PassThrough(st, chunk) == [st EXCEPT !.processed = Append(@, clone(chunk))]

\* Variant of KeyframeBody: a keyframe kept by a keep-set is not counted in
\* the kept-count of its clip.
KeyframeBody_ForcedNotCounted(st, chunk, clip, pol) ==
    LET clip_id == chunk.clip_id
        keep == KeepKeyframe(clip, pol, st.per_clip_key_index[clip_id],
                    st.global_key_index, st.per_clip_keys_kept[clip_id])
        forced == InOpt(st.per_clip_key_index[clip_id], clip.keep_set)
                      \/ InOpt(st.global_key_index, pol.keep_key_indices)
    IN  [st EXCEPT
           !.processed = IF keep THEN Append(@, clone(chunk)) ELSE @,
           !.per_clip_keys_kept[clip_id] = IF keep /\ ~forced THEN @ + 1 ELSE @,
           !.per_clip_key_index[clip_id] = @ + 1,
           !.global_key_index = @ + 1]

\* Variant of KeyframeBody: a keyframe that is not kept goes on as a
\* predicted frame would (counted for the cadence, emitted, copied).
KeyframeBody_DroppedRetried(st, chunk, clip, pol) ==
    LET clip_id == chunk.clip_id
        keep == KeepKeyframe(clip, pol, st.per_clip_key_index[clip_id],
                    st.global_key_index, st.per_clip_keys_kept[clip_id])
        p == st.per_clip_p_counter[clip_id] + 1
    IN  [st EXCEPT
           !.processed =
               IF keep THEN Append(@, clone(chunk))
               ELSE IF DuplicateNow(clip, p)
               THEN Append(@, clone(chunk)) \o Copies(chunk, clip.dup_count)
               ELSE Append(@, clone(chunk)),
           !.per_clip_p_counter[clip_id] = IF keep THEN @ ELSE p,
           !.per_clip_keys_kept[clip_id] = IF keep THEN @ + 1 ELSE @,
           !.per_clip_key_index[clip_id] = @ + 1,
           !.global_key_index = @ + 1]

\* Variant of KeyframeBody: a kept keyframe is put at the head of the output.
KeyframeBody_KeptAtHead(st, chunk, clip, pol) ==
    LET clip_id == chunk.clip_id
        keep == KeepKeyframe(clip, pol, st.per_clip_key_index[clip_id],
                    st.global_key_index, st.per_clip_keys_kept[clip_id])
    IN  [st EXCEPT
           !.processed = IF keep THEN <<clone(chunk)>> \o @ ELSE @,
           !.per_clip_keys_kept[clip_id] = IF keep THEN @ + 1 ELSE @,
           !.per_clip_key_index[clip_id] = @ + 1,
           !.global_key_index = @ + 1]

\* Lines 385-409: a keyframe candidate of a clip with the policy clip.
KeyframeBody(st, chunk, clip, pol) ==
    LET clip_id == chunk.clip_id
        keep == KeepKeyframe(clip, pol, st.per_clip_key_index[clip_id],
                    st.global_key_index, st.per_clip_keys_kept[clip_id])
    IN  [st EXCEPT
           !.processed = IF keep THEN Append(@, clone(chunk)) ELSE @,
           !.per_clip_keys_kept[clip_id] = IF keep THEN @ + 1 ELSE @,
           !.per_clip_key_index[clip_id] = @ + 1,
           !.global_key_index = @ + 1]

\* Variant of PredictedBody: one predicted-frame counter is shared by all
\* clips.
PredictedBody_SharedCounter(st, chunk, clip) ==
    LET p == st.per_clip_p_counter[0] + 1
    IN  [st EXCEPT
           !.per_clip_p_counter[0] = p,
           !.processed =
               IF DuplicateNow(clip, p)
               THEN Append(@, clone(chunk)) \o Copies(chunk, clip.dup_count)
               ELSE Append(@, clone(chunk))]

\* Lines 411-420: a predicted frame of a clip with the policy clip.
PredictedBody(st, chunk, clip) ==
    LET clip_id == chunk.clip_id
        p == st.per_clip_p_counter[clip_id] + 1
    IN  [st EXCEPT
           !.per_clip_p_counter[clip_id] = p,
           !.processed =
               IF DuplicateNow(clip, p)
               THEN Append(@, clone(chunk)) \o Copies(chunk, clip.dup_count)
               ELSE Append(@, clone(chunk))]

\* Variant of LoopBody: a chunk that is not video advances the predicted-
\* frame counter of its clip.
LoopBody_NonVideoCounted(st, chunk, pol) ==
    IF ~chunk.is_video
    THEN [PassThrough(st, chunk) EXCEPT !.per_clip_p_counter[chunk.clip_id] = @ + 1]
    ELSE
    LET clip == ResolveOptions(pol, chunk.clip_id)
    IN  IF clip.dup_count < 0 \/ clip.dup_gap <= 0
        THEN [st EXCEPT !.err = ValueError]
        ELSE IF chunk.is_keyframe
        THEN KeyframeBody(st, chunk, clip, pol)
        ELSE PredictedBody(st, chunk, clip)

\* Lines 366-420: the body of the pass for one chunk.
LoopBody(st, chunk, pol) ==
    IF ~chunk.is_video THEN PassThrough(st, chunk)
    ELSE
    LET clip == ResolveOptions(pol, chunk.clip_id)
    IN  IF clip.dup_count < 0 \/ clip.dup_gap <= 0
        THEN [st EXCEPT !.err = ValueError]
        ELSE IF chunk.is_keyframe
        THEN KeyframeBody(st, chunk, clip, pol)
        ELSE PredictedBody(st, chunk, clip)

\* Line 366: one iteration, on the chunk at the loop position i (1-based).
LoopStep(st, cs, pol) == [LoopBody(st, cs[st.i], pol) EXCEPT !.i = @ + 1]

LoopDone(st, cs) == st.i > Len(cs)

RECURSIVE LoopFrom(_, _, _)
LoopFrom(st, cs, pol) ==
    IF LoopDone(st, cs) \/ st.err # "" THEN st
    ELSE LoopFrom(LoopStep(st, cs, pol), cs, pol)

\* process_chunks as a function: the error, or the processed list.
process_chunks(cs, pol) ==
    IF ~ArgsValid(pol) THEN Fail(ValueError)
    ELSE LET st == LoopFrom(LoopInit, cs, pol) IN
         IF st.err # "" THEN Fail(st.err)
         ELSE [err |-> "", processed |-> st.processed]

----------------------------------------------------------------------------
(* Container builder: build_movi_and_index, update_header_counts.          *)

\* Variant of MoviBytes: no pad byte after odd-sized data.
MoviBytes_NoPad(chunk) ==
    chunk.chunk_id \o pack_le(Len(chunk.data)) \o chunk.data

\* Lines 436-440: tag, size, data and the pad byte of one chunk.
MoviBytes(chunk) ==
    LET size == Len(chunk.data) IN
    chunk.chunk_id \o pack_le(size) \o chunk.data
        \o (IF size % 2 = 1 THEN <<0>> ELSE <<>>)

\* Variant of IdxBytes: the index records the padded size.
IdxBytes_PaddedSize(chunk, offset) ==
    chunk.chunk_id \o pack_le(chunk.flags) \o pack_le(offset)
        \o pack_le(Len(chunk.data) + (Len(chunk.data) % 2))

\* Lines 442-445: the index entry of one chunk at the running offset.
IdxBytes(chunk, offset) ==
    chunk.chunk_id \o pack_le(chunk.flags) \o pack_le(offset)
        \o pack_le(Len(chunk.data))

\* Variant of NextOffset: the pad byte is not counted.
NextOffset_NoPad(offset, size) == offset + 8 + size

\* Line 447: the running offset after one chunk.
NextOffset(offset, size) == offset + 8 + size + (size % 2)

\* Variant of CountsAsFrame: every chunk is counted.
CountsAsFrame_Any(chunk) == TRUE

\* Line 448: the chunks counted in video_frames.
CountsAsFrame(chunk) == chunk.is_video

RECURSIVE BuildLoop(_, _, _, _, _, _)
BuildLoop(cs, i, movi_payload, idx_payload, offset, video_frames) ==
    IF i > Len(cs)
    THEN [ movi_payload |-> movi_payload, idx_payload |-> idx_payload,
           video_frames |-> video_frames ]
    ELSE BuildLoop(cs, i + 1,
             movi_payload \o MoviBytes(cs[i]),
             idx_payload \o IdxBytes(cs[i], offset),
             NextOffset(offset, Len(cs[i].data)),
             IF CountsAsFrame(cs[i]) THEN video_frames + 1 ELSE video_frames)

\* Offset of the first chunk: the 'movi' fourcc precedes the payload.
FirstOffset == 4

build_movi_and_index(cs) ==
    LET b == BuildLoop(cs, 1, <<>>, <<>>, FirstOffset, 0) IN
    [ movi_chunk |-> LIST \o pack_le(4 + Len(b.movi_payload)) \o movi
                          \o b.movi_payload,
      idx_chunk |-> idx1 \o pack_le(Len(b.idx_payload)) \o b.idx_payload,
      video_frames |-> b.video_frames ]

----------------------------------------------------------------------------
(* Inputs of the selection pass: chunk sequences and policies.             *)

\* A chunk as extraction would build it: tag and index flags of a kind, and
\* a payload that tells the position i it was read at.
Payload(i, n) == [k \in 1..n |-> 16 * i + k]

KeyKind == "K"     \* 00dc, keyframe flag set, three bytes
PredKind == "P"    \* 00dc, keyframe flag clear, zero to two bytes
AudioKind == "A"   \* 01wb, keyframe flag set (as encoders write it), one byte
Kinds == {KeyKind, PredKind, AudioKind}

KindChunk(kind, i, clip_id) ==
    IF kind = KeyKind THEN MakeChunk(Tag00dc, AVIIF_KEYFRAME, Payload(i, 3), clip_id)
    ELSE IF kind = PredKind THEN MakeChunk(Tag00dc, 0, Payload(i, (i - 1) % 3), clip_id)
    ELSE MakeChunk(Tag01wb, AVIIF_KEYFRAME, Payload(i, 1), clip_id)

\* Clip ids never decrease along the concatenation (rewrite_avi, 555-558).
ClipAssignments(n) ==
    {f \in [1..n -> ClipIds] : \A i \in 1..n : \A j \in i..n : f[i] <= f[j]}

ChunkSeqs(n) ==
    {[i \in 1..n |-> KindChunk(ks[i], i, cl[i])] :
        ks \in [1..n -> Kinds], cl \in ClipAssignments(n)}

AllChunkSeqs == UNION {ChunkSeqs(n) : n \in 0..MaxChunks}

KeySets == {None, Some({0}), Some({1})}
GlobalKeySets == {None, Some({1})}

NoOptions == <<>>

Policy(keep, dup, gap, gkeep, gdrop, options, daf) ==
    [ keep_initial_keyframes |-> keep, duplicate_count |-> dup,
      duplicate_gap |-> gap, keep_key_indices |-> gkeep,
      drop_key_indices |-> gdrop, clip_options |-> options,
      drop_appended_first |-> daf ]

ClipOptions(keep, dup, gap, drop_first, keep_keys, drop_keys) ==
    [ keep_initial_keyframes |-> keep, duplicate_count |-> dup,
      duplicate_gap |-> gap, drop_first_keyframe |-> drop_first,
      keep_specific_keys |-> keep_keys, drop_specific_keys |-> drop_keys ]

\* Global quota and cadence, no explicit sets, no per-clip options.
CadencePolicies ==
    {Policy(keep, dup, gap, None, None, NoOptions, daf) :
        keep \in 0..MaxKeep, dup \in 0..MaxDup, gap \in 1..MaxGap,
        daf \in BOOLEAN}

\* Global keep and drop sets.
GlobalSetPolicies ==
    {Policy(keep, 1, MaxGap, gkeep, gdrop, NoOptions, daf) :
        keep \in 0..1, gkeep \in KeySets, gdrop \in KeySets, daf \in BOOLEAN}

\* Options for one clip, the other clips on the global fallback.
ClipPolicies ==
    {Policy(1, 0, 1, gkeep, gdrop,
            [c \in {clip_id} |-> ClipOptions(keep, 1, MaxGap, df, ckeep, cdrop)],
            TRUE) :
        gkeep \in GlobalKeySets, gdrop \in GlobalKeySets, clip_id \in ClipIds,
        keep \in 0..1, df \in BOOLEAN, ckeep \in KeySets, cdrop \in KeySets}

\* Arguments process_chunks rejects: a negative count or a cadence below one,
\* given globally or in the options of one clip.
BadCadences == {<<0 - 1, 1>>, <<1, 0>>, <<0, 0 - 1>>}

InvalidPolicies ==
    {Policy(1, dg[1], dg[2], None, None, NoOptions, TRUE) : dg \in BadCadences}
    \cup
    {Policy(1, 0, 1, None, None,
            [c \in {clip_id} |-> ClipOptions(1, dg[1], dg[2], FALSE, None, None)],
            TRUE) :
        dg \in BadCadences, clip_id \in ClipIds}

Policies ==
    CadencePolicies \cup GlobalSetPolicies \cup ClipPolicies \cup InvalidPolicies

----------------------------------------------------------------------------
(* The selection pass followed by the builder (SpecSelect).                *)

NoBuilt == [movi_chunk |-> <<>>, idx_chunk |-> <<>>, video_frames |-> 0]
NoBase == [prefix |-> <<>>, between |-> <<>>, suffix |-> <<>>, chunks |-> <<>>]
NoResult == [err |-> ""]

NoFault == [kind |-> "none", at |-> 0]
NoManager == [shortcuts |-> <<>>, bound |-> <<>>]
NoCall == [name |-> "", key |-> "", modifiers |-> <<>>, callback |-> "",
           override |-> FALSE]
\* Paths an output_path can name: a path of its own, the path of the base
\* file, the path of the first appended file.
FreshPath == "output_path"
SourcePath == "source_path"
FirstExtraPath == "extra_inputs[0]"

NoDisk == [source |-> <<>>, extra |-> <<>>, output |-> None,
           output_path |-> FreshPath]

Idle ==
    /\ disk = NoDisk /\ extra_inputs = <<>> /\ clip_index = 0 /\ base = NoBase
    /\ header_offsets = NoOffsets
    /\ payload = <<>> /\ idx_entries = <<>> /\ fault = NoFault
    /\ spec = <<>> /\ manager = NoManager /\ call = NoCall /\ heap = <<>>

InitSelect ==
    /\ pc = "process_chunks"
    /\ policy \in Policies
    /\ chunks \in AllChunkSeqs
    /\ loop = LoopInit
    /\ built = NoBuilt
    /\ result = NoResult
    /\ Idle

FrameSelect ==
    UNCHANGED <<disk, extra_inputs, clip_index, base, header_offsets, payload,
                idx_entries, fault, policy, chunks, spec, manager, call,
                   heap>>

\* Lines 355-358: invalid global arguments raise before the pass.
RejectArgs ==
    /\ pc = "process_chunks"
    /\ ~ArgsValid(policy)
    /\ pc' = "raised"
    /\ result' = Fail(ValueError)
    /\ UNCHANGED <<loop, built>>
    /\ FrameSelect

EnterLoop ==
    /\ pc = "process_chunks"
    /\ ArgsValid(policy)
    /\ pc' = "loop"
    /\ UNCHANGED <<loop, built, result>>
    /\ FrameSelect

\* One iteration of "for chunk in chunks".
Iterate ==
    /\ pc = "loop"
    /\ ~LoopDone(loop, chunks)
    /\ loop' = LoopStep(loop, chunks, policy)
    /\ IF loop'.err # ""
       THEN pc' = "raised" /\ result' = Fail(loop'.err)
       ELSE pc' = "loop" /\ UNCHANGED result
    /\ UNCHANGED built
    /\ FrameSelect

\* Line 422: return processed.
ReturnProcessed ==
    /\ pc = "loop"
    /\ LoopDone(loop, chunks)
    /\ pc' = "build"
    /\ result' = [err |-> "", processed |-> loop.processed]
    /\ UNCHANGED <<loop, built>>
    /\ FrameSelect

\* build_movi_and_index on the processed chunks.
Build ==
    /\ pc = "build"
    /\ built' = build_movi_and_index(result.processed)
    /\ pc' = "built"
    /\ UNCHANGED <<loop, result>>
    /\ FrameSelect

NextSelect == RejectArgs \/ EnterLoop \/ Iterate \/ ReturnProcessed \/ Build

SpecSelect == InitSelect /\ [][NextSelect]_vars

----------------------------------------------------------------------------
(* Reading a rebuilt movi list and a rebuilt idx1 chunk back.              *)

\* The chunks of a RIFF payload from position pos on: tag, declared size,
\* position of the chunk header and data, pad bytes skipped.
RECURSIVE RiffChunks(_, _)
RiffChunks(bytes, pos) ==
    IF pos + 8 > Len(bytes) THEN <<>>
    ELSE LET size == read_le_uint(bytes, pos + 4) IN
         << [ tag |-> Slice(bytes, pos, pos + 4), size |-> size, pos |-> pos,
              data |-> Slice(bytes, pos + 8, pos + 8 + size) ] >>
         \o RiffChunks(bytes, pos + 8 + size + (size % 2))

\* The chunks inside a LIST movi chunk (header 8 bytes, then 'movi').
MoviChunksOf(movi_chunk) == RiffChunks(SliceFrom(movi_chunk, 12), 0)

\* The 16-byte entries of an idx1 chunk.
IndexEntriesOf(idx_chunk) ==
    [k \in 1..((Len(idx_chunk) - 8) \div 16) |->
        LET at == 8 + 16 * (k - 1) IN
        [ chunk_id |-> Slice(idx_chunk, at, at + 4),
          flags |-> read_le_uint(idx_chunk, at + 4),
          offset |-> read_le_uint(idx_chunk, at + 8),
          size |-> read_le_uint(idx_chunk, at + 12) ]]

RECURSIVE SumTo(_, _)
SumTo(f, n) == IF n = 0 THEN 0 ELSE f[n] + SumTo(f, n - 1)

\* Number of indices of the sequence s whose element satisfies Test.
Count(s, Test(_)) == Cardinality({i \in 1..Len(s) : Test(s[i])})

IsKey(c) == c.is_video /\ c.is_keyframe
IsPred(c) == c.is_video /\ ~c.is_keyframe

\* Some keyframe was dropped and some copy was inserted by the pass.
MixedDropAndDup ==
    /\ Count(result.processed, IsKey) < Count(chunks, IsKey)
    /\ Count(result.processed, IsPred) > Count(chunks, IsPred)

----------------------------------------------------------------------------
(* C1: the rebuilt idx1 has exactly one entry per chunk of the rebuilt     *)
(* movi, in the same order, and entry i carries the tag, the flags and the *)
(* unpadded size of chunk i.                                               *)
C1_IndexMirrorsMovi ==
    pc = "built" =>
        LET cs == result.processed
            mv == MoviChunksOf(built.movi_chunk)
            ix == IndexEntriesOf(built.idx_chunk)
        IN  /\ Slice(built.movi_chunk, 0, 4) = LIST
            /\ Slice(built.movi_chunk, 8, 12) = movi
            /\ read_le_uint(built.movi_chunk, 4) = Len(built.movi_chunk) - 8
            /\ Slice(built.idx_chunk, 0, 4) = idx1
            /\ read_le_uint(built.idx_chunk, 4) = Len(built.idx_chunk) - 8
            /\ Len(built.idx_chunk) = 8 + 16 * Len(ix)
            /\ Len(ix) = Len(mv)
            /\ Len(mv) = Len(cs)
            /\ \A i \in 1..Len(ix) :
                  /\ ix[i].chunk_id = mv[i].tag
                  /\ ix[i].size = mv[i].size
                  /\ mv[i].tag = cs[i].chunk_id
                  /\ mv[i].data = cs[i].data
                  /\ ix[i].flags = cs[i].flags

C1_Witness ==
    /\ pc = "built"
    /\ MixedDropAndDup
    /\ \E i \in 1..Len(result.processed) : Len(result.processed[i].data) % 2 = 1

(* C2: entry i of the rebuilt index records the offset 4 plus the sum of   *)
(* 8 + size + (size mod 2) over the preceding chunks; the first offset is  *)
(* 4 and the offsets increase strictly.                                    *)
C2_IndexOffsets ==
    pc = "built" =>
        LET ix == IndexEntriesOf(built.idx_chunk)
            mv == MoviChunksOf(built.movi_chunk)
            step == [j \in 1..Len(mv) |-> 8 + mv[j].size + (mv[j].size % 2)]
        IN  /\ Len(ix) = Len(mv)
            /\ \A i \in 1..Len(ix) : ix[i].offset = 4 + SumTo(step, i - 1)
            /\ Len(ix) > 0 => ix[1].offset = 4
            /\ \A i \in 1..(Len(ix) - 1) : ix[i].offset < ix[i + 1].offset

C2_Witness ==
    /\ pc = "built"
    /\ MixedDropAndDup
    /\ \E i \in 1..(Len(result.processed) - 1) :
          Len(result.processed[i].data) % 2 = 1

----------------------------------------------------------------------------
(* The selection pass seen from its input and its output.                  *)

Prefix(s, n) == SubSeq(s, 1, n)

KeyOf(c, clip_id) == IsKey(c) /\ c.clip_id = clip_id
PredOf(c, clip_id) == IsPred(c) /\ c.clip_id = clip_id

\* The keyframes (predicted frames) of one clip, in order.
KeysOf(s, clip_id) == LET T(c) == KeyOf(c, clip_id) IN SelectSeq(s, T)
PredsOf(s, clip_id) == LET T(c) == PredOf(c, clip_id) IN SelectSeq(s, T)

Returned == pc \in {"build", "built"}

\* The chunk the pass is about to look at, and what preceded it.
Current == chunks[loop.i]
Before == Prefix(chunks, loop.i - 1)

\* An iteration on a chunk satisfying Test that raises nothing.
Visits(Test(_)) ==
    /\ pc = "loop" /\ ~LoopDone(loop, chunks) /\ Test(Current)
    /\ pc' = "loop"

\* The rule of the fixed order that decides a keyframe candidate: l its
\* clip-local ordinal, g its global ordinal, kept the clip's kept-count.
FirstRule(clip, pol, l, g, kept) ==
    IF clip.drop_first /\ l = 0 THEN 1
    ELSE IF InOpt(l, clip.drop_set) THEN 2
    ELSE IF InOpt(g, pol.drop_key_indices) THEN 3
    ELSE IF InOpt(l, clip.keep_set) THEN 4
    ELSE IF InOpt(g, pol.keep_key_indices) THEN 5
    ELSE IF kept >= clip.keep_limit THEN 6
    ELSE 7

DropRules == {1, 2, 3, 6}

\* The rule that decides the keyframe at position i of the input, with the
\* ordinals counted on the input and the kept-count on the output out.
RuleAt(i, out) ==
    LET c == chunks[i]
        clip == ResolveOptions(policy, c.clip_id)
    IN  FirstRule(clip, policy,
            Len(KeysOf(Prefix(chunks, i - 1), c.clip_id)),
            Count(Prefix(chunks, i - 1), IsKey),
            Len(KeysOf(out, c.clip_id)))

(* C5: the fate of every keyframe candidate is that of the first matching  *)
(* rule of the order drop-first flag, clip drop-set, global drop-set, clip *)
(* keep-set, global keep-set, quota, keep; a dropped keyframe leaves the   *)
(* output as it was and a kept one is appended to it.                      *)
C5_FirstMatchWins ==
    [][ Visits(IsKey) =>
          IF RuleAt(loop.i, loop.processed) \in DropRules
          THEN loop'.processed = loop.processed
          ELSE loop'.processed = Append(loop.processed, Current)
      ]_vars

\* The first two chunks were keyframes of one clip: the first matched a drop
\* rule and a keep-set and was dropped, the second was in a keep-set with the
\* quota exhausted and was kept.
C5_Witness ==
    /\ pc = "loop" /\ loop.i = 3
    /\ IsKey(chunks[1]) /\ IsKey(chunks[2])
    /\ chunks[1].clip_id = chunks[2].clip_id
    /\ LET clip == ResolveOptions(policy, chunks[1].clip_id) IN
       /\ InOpt(0, clip.drop_set) /\ InOpt(0, clip.keep_set)
       /\ ~InOpt(1, clip.drop_set) /\ ~InOpt(1, policy.drop_key_indices)
       /\ InOpt(1, policy.keep_key_indices)
       /\ clip.keep_limit = 0
    /\ loop.processed = <<chunks[2]>>

\* The clip's policy names no keyframe explicitly.
NoExplicitSets(clip_id) ==
    LET clip == ResolveOptions(policy, clip_id) IN
    /\ IsNone(policy.keep_key_indices) /\ IsNone(policy.drop_key_indices)
    /\ IsNone(clip.keep_set) /\ IsNone(clip.drop_set)

\* The first n elements of s (all of them when s is shorter).
Leading(s, n) == Prefix(s, Min(n, Len(s)))

(* C6 as stated: for every clip, base or appended, with quota K and no     *)
(* explicit sets, the surviving keyframes are the first min(K, n) of the   *)
(* clip's n keyframes.                                                     *)
C6_Original ==
    Returned =>
        \A c \in ClipIds :
            NoExplicitSets(c) =>
                KeysOf(result.processed, c)
                    = Leading(KeysOf(chunks, c), ResolveOptions(policy, c).keep_limit)

(* C6 amended: with quota K and no explicit sets, a clip whose drop-first  *)
(* rule is off keeps exactly its first min(K, n) keyframes; a clip whose   *)
(* drop-first rule is on loses keyframe 0 and keeps the min(K, n - 1)      *)
(* keyframes that follow it.                                               *)
C6_QuotaBoundary ==
    Returned =>
        \A c \in ClipIds :
            NoExplicitSets(c) =>
                LET clip == ResolveOptions(policy, c)
                    keys == KeysOf(chunks, c)
                IN  KeysOf(result.processed, c)
                        = IF clip.drop_first
                          THEN Leading(SubSeq(keys, 2, Len(keys)), clip.keep_limit)
                          ELSE Leading(keys, clip.keep_limit)

\* A base clip with more keyframes than its positive quota, no sets.
C6_Witness ==
    /\ Returned
    /\ NoExplicitSets(0)
    /\ ~ResolveOptions(policy, 0).drop_first
    /\ ResolveOptions(policy, 0).keep_limit = 1
    /\ Len(KeysOf(chunks, 0)) >= 2
    /\ Len(KeysOf(result.processed, 0)) = 1

(* C7: a predicted frame is emitted followed by D copies when it is the    *)
(* clip's (k*G)-th predicted frame and by none otherwise, every copy with  *)
(* the keyframe bit clear and is_keyframe false; at the end the clip has   *)
(* received D * floor(P / G) copies for its P predicted frames.            *)
C7_Step ==
    Visits(IsPred) =>
        LET c == Current
            clip == ResolveOptions(policy, c.clip_id)
            m == Len(PredsOf(Before, c.clip_id)) + 1
            n == IF m % clip.dup_gap = 0 THEN clip.dup_count ELSE 0
            out == loop'.processed
            at == Len(loop.processed) + 1
        IN  /\ Len(out) = at + n
            /\ Prefix(out, at - 1) = loop.processed
            /\ out[at] = c
            /\ \A k \in 1..n :
                  /\ out[at + k].chunk_id = c.chunk_id
                  /\ out[at + k].data = c.data
                  /\ out[at + k].clip_id = c.clip_id
                  /\ out[at + k].is_video
                  /\ ~HasKeyBit(out[at + k].flags)
                  /\ ~out[at + k].is_keyframe

C7_Total ==
    Returned =>
        \A c \in ClipIds :
            LET clip == ResolveOptions(policy, c)
                P == Len(PredsOf(chunks, c))
            IN  P > 0 =>
                  Len(PredsOf(result.processed, c)) - P
                      = clip.dup_count * (P \div clip.dup_gap)

C7_Duplication == [](C7_Total) /\ [][C7_Step]_vars

\* A clip with two predicted frames, two copies every second frame.
C7_Witness ==
    /\ Returned
    /\ \E c \in ClipIds :
          /\ ResolveOptions(policy, c).dup_count = 2
          /\ ResolveOptions(policy, c).dup_gap = 2
          /\ Len(PredsOf(chunks, c)) >= 2
          /\ Len(PredsOf(result.processed, c)) = Len(PredsOf(chunks, c)) + 2

----------------------------------------------------------------------------
(* Input files: a movi payload with its index, as an encoder lays them out,*)
(* and the ways an index and a payload can disagree.                       *)

RECURSIVE Flatten(_)
Flatten(ss) == IF Len(ss) = 0 THEN <<>> ELSE Head(ss) \o Flatten(Tail(ss))

\* A chunk in a file: tag, size, data, and a pad byte after odd-sized data.
ChunkOnDisk(c) ==
    c.chunk_id \o pack_le(Len(c.data)) \o c.data
        \o (IF Len(c.data) % 2 = 1 THEN <<0>> ELSE <<>>)

\* Position of chunk i of cs in the payload made of cs.
PositionOf(cs, i) ==
    SumTo([j \in 1..Len(cs) |-> Len(ChunkOnDisk(cs[j]))], i - 1)

PayloadOf(cs) == Flatten([i \in 1..Len(cs) |-> ChunkOnDisk(cs[i])])

\* The index entry of chunk i: its offset counts from the 'movi' tag.
EntryOf(cs, i) ==
    [ chunk_id |-> cs[i].chunk_id, flags |-> cs[i].flags,
      offset |-> PositionOf(cs, i) + 4, size |-> Len(cs[i].data) ]

EntriesOf(cs) == [i \in 1..Len(cs) |-> EntryOf(cs, i)]

OtherTag(tag) == IF tag = Tag00dc THEN Tag01wb ELSE Tag00dc

EntryFaults == {"tag", "size", "offset+1", "offset-1"}

\* The disagreements one can make from the chunks cs.
FaultsOf(cs) ==
    {NoFault}
    \cup {[kind |-> k, at |-> i] : k \in EntryFaults \cup {"list"}, i \in 1..Len(cs)}
    \cup {[kind |-> "extra", at |-> Len(cs) + 1]}
    \cup {[kind |-> "fewer", at |-> Len(cs)] : i \in 1..Min(1, Len(cs))}
    \cup {[kind |-> "overrun", at |-> Len(cs)] :
            i \in {j \in {Len(cs)} : j > 0 /\ Len(cs[j].data) > 0}}

FaultyEntries(cs, f) ==
    LET es == EntriesOf(cs) IN
    IF f.kind = "tag" THEN [es EXCEPT ![f.at].chunk_id = OtherTag(@)]
    ELSE IF f.kind = "size" THEN [es EXCEPT ![f.at].size = @ + 1]
    ELSE IF f.kind = "offset+1" THEN [es EXCEPT ![f.at].offset = @ + 1]
    ELSE IF f.kind = "offset-1" THEN [es EXCEPT ![f.at].offset = @ - 1]
    ELSE IF f.kind = "list" THEN [es EXCEPT ![f.at].chunk_id = LIST]
    ELSE IF f.kind = "fewer" THEN SubSeq(es, 1, Len(es) - 1)
    ELSE IF f.kind = "extra"
         THEN Append(es, [ chunk_id |-> Tag00dc, flags |-> 0,
                           offset |-> Len(PayloadOf(cs)) + 4, size |-> 0 ])
    ELSE es

FaultyPayload(cs, f) ==
    LET bytes == PayloadOf(cs) IN
    IF f.kind = "list"
    THEN LET at == PositionOf(cs, f.at) IN
         [k \in 1..Len(bytes) |->
             IF k > at /\ k <= at + 4 THEN LIST[k - at] ELSE bytes[k]]
    ELSE IF f.kind = "overrun"
    THEN SubSeq(bytes, 1, PositionOf(cs, f.at) + 8 + Len(cs[f.at].data) - 1)
    ELSE bytes

\* Chunk sequences of one file: the clip id is given by the parser.
FileChunkSeqs(n) ==
    {[i \in 1..n |-> KindChunk(ks[i], i, 0)] : ks \in [1..n -> Kinds]}

----------------------------------------------------------------------------
(* Chunk extraction on its own (SpecParse).                                *)

InitParse ==
    /\ pc = "parse_movi_chunks"
    /\ \E n \in 0..MaxChunks : chunks \in FileChunkSeqs(n)
    /\ fault \in FaultsOf(chunks)
    /\ payload = FaultyPayload(chunks, fault)
    /\ idx_entries = FaultyEntries(chunks, fault)
    /\ clip_index \in ClipIds
    /\ policy = Policy(0, 0, 1, None, None, NoOptions, TRUE)
    /\ loop = LoopInit /\ built = NoBuilt /\ result = NoResult
    /\ disk = NoDisk /\ extra_inputs = <<>> /\ base = NoBase
    /\ header_offsets = NoOffsets
    /\ spec = <<>> /\ manager = NoManager /\ call = NoCall /\ heap = <<>>

\* parse_movi_chunks(payload, idx_entries, clip_id)
ParseMovi ==
    /\ pc = "parse_movi_chunks"
    /\ result' = parse_movi_chunks(payload, idx_entries, clip_index)
    /\ pc' = IF result'.err = "" THEN "parsed" ELSE "raised"
    /\ UNCHANGED <<policy, chunks, loop, built, disk, extra_inputs, clip_index,
                   base, header_offsets, payload, idx_entries, fault, spec, manager, call,
                   heap>>

NextParse == ParseMovi

SpecParse == InitParse /\ [][NextParse]_vars

(* C10: parse_movi_chunks raises the parse error whenever the index and    *)
(* the payload disagree (an entry missing or left over, a tag, size or     *)
(* offset that differs, a chunk running past the payload, a nested LIST),  *)
(* and when it returns, the chunks and the entries are equal in number and *)
(* chunk i has the tag and the size of entry i.                            *)
C10_MismatchRejected ==
    /\ (pc \in {"parsed", "raised"} /\ fault.kind # "none")
          => (pc = "raised" /\ result = Fail(AviParseError))
    /\ pc = "parsed" =>
          /\ Len(result.chunks) = Len(idx_entries)
          /\ \A i \in 1..Len(idx_entries) :
                /\ result.chunks[i].chunk_id = idx_entries[i].chunk_id
                /\ Len(result.chunks[i].data) = idx_entries[i].size
                /\ result.chunks[i].flags = idx_entries[i].flags
                /\ result.chunks[i] = [chunks[i] EXCEPT !.clip_id = clip_index]

\* An index off by one byte in the offset of its last entry was rejected.
C10_Witness ==
    /\ pc = "raised"
    /\ fault = [kind |-> "offset+1", at |-> Len(chunks)]
    /\ Len(chunks) >= 2

C10_WitnessAccepted ==
    /\ pc = "parsed" /\ Len(result.chunks) >= 2

----------------------------------------------------------------------------
(* Whole input files.                                                      *)

Zeros(n) == [k \in 1..n |-> 0]

\* A RIFF chunk and a RIFF list.
RiffChunk(tag, data) ==
    tag \o pack_le(Len(data)) \o data
        \o (IF Len(data) % 2 = 1 THEN <<0>> ELSE <<>>)
RiffList(type, body) == LIST \o pack_le(4 + Len(body)) \o type \o body

\* Frame counts an encoder left in the headers (all differ from any count
\* the model can produce).
\* The frame counts the encoder left in the header, one value per field so
\* that a field is told from every other.
Stale(k) == 200 + k
StaleMain == Stale(1)
StaleStream == Stale(2)
StaleOdml == Stale(3)
AudioLength == Stale(4)

\* Main header: dwTotalFrames is the fifth field.
AvihChunk == RiffChunk(avih, Zeros(16) \o pack_le(StaleMain))

\* Stream header: fccType first, dwLength the ninth field.
StrhChunk(fcc, length) == RiffChunk(strh, fcc \o Zeros(28) \o pack_le(length))
VideoStream(length) == RiffList(strl, StrhChunk(vids, length))
AudioStream == RiffList(strl, StrhChunk(auds, AudioLength))

DmlhChunk == RiffChunk(dmlh, pack_le(StaleOdml))

\* The header lists the files of the model start with.
HeaderKinds == {"none", "main", "video", "full"}

HeaderList(kind) ==
    IF kind = "none" THEN <<>>
    ELSE IF kind = "main" THEN RiffList(hdrl, AvihChunk)
    ELSE IF kind = "video" THEN RiffList(hdrl, AvihChunk \o VideoStream(StaleStream))
    ELSE RiffList(hdrl,
             AvihChunk \o AudioStream \o VideoStream(StaleStream)
                 \o VideoStream(AudioLength)
                 \o RiffList(odml, DmlhChunk \o DmlhChunk))

\* What stands between movi and idx1 and after idx1.
Layouts == {"plain", "padded"}
BetweenOf(layout) == IF layout = "plain" THEN <<>> ELSE RiffChunk(JUNK, <<1, 2>>)
SuffixOf(layout) == IF layout = "plain" THEN <<>> ELSE RiffChunk(JUNK, <<3>>)

IndexOnDisk(es) ==
    RiffChunk(idx1,
        Flatten([i \in 1..Len(es) |->
            es[i].chunk_id \o pack_le(es[i].flags) \o pack_le(es[i].offset)
                \o pack_le(es[i].size)]))

\* The file with the header list of a kind, the chunks cs with the fault f,
\* and a layout; the RIFF size is that of the file.
AviFile(header, cs, f, layout) ==
    LET body == AVI_ \o HeaderList(header)
                    \o RiffList(movi, FaultyPayload(cs, f))
                    \o BetweenOf(layout)
                    \o IndexOnDisk(FaultyEntries(cs, f))
                    \o SuffixOf(layout)
    IN  RIFF \o pack_le(Len(body)) \o body

MaxFileChunks == 2

SourceChunkSeqs == UNION {FileChunkSeqs(n) : n \in 0..MaxFileChunks}

\* The files handed to rewrite_avi as its source: every header list and
\* layout around consistent chunks, and files whose last index entry is off
\* by one byte.
SourceFiles ==
    {[bytes |-> AviFile(h, cs, NoFault, l), fault |-> NoFault] :
        h \in HeaderKinds, l \in Layouts, cs \in SourceChunkSeqs}
    \cup
    {[bytes |-> AviFile("main", cs, [kind |-> "offset+1", at |-> Len(cs)], "plain"),
      fault |-> [kind |-> "offset+1", at |-> Len(cs)]] :
        cs \in SourceChunkSeqs \ {<<>>}}

\* Appended clips: a keyframe and a predicted frame, audio and a keyframe, a
\* lone keyframe, and a file whose index is off by one byte.
ExtraKinds == {<<KeyKind, PredKind>>, <<AudioKind, KeyKind>>, <<KeyKind>>}
ExtraChunks(ks) == [i \in 1..Len(ks) |-> KindChunk(ks[i], i, 0)]
ExtraFiles ==
    {AviFile("video", ExtraChunks(ks), NoFault, "plain") : ks \in ExtraKinds}
    \cup {AviFile("main", ExtraChunks(<<KeyKind>>),
                  [kind |-> "offset+1", at |-> 1], "plain")}

\* No appended file, or one.
ExtraLists == {<<>>} \cup {<<f>> : f \in ExtraFiles}

\* Files a rewrite has to reject. Each is the file of a keyframe and a
\* predicted frame under a main header, damaged in one place.
DamagedChunks == <<KindChunk(KeyKind, 1, 0), KindChunk(PredKind, 2, 0)>>
RiffFile(body) == RIFF \o pack_le(Len(body)) \o body
GoodHeader == HeaderList("main")
GoodMovi == RiffList(movi, PayloadOf(DamagedChunks))
GoodIdx1 == IndexOnDisk(EntriesOf(DamagedChunks))

\* A chunk or list header that declares more bytes than follow it.
Declaring(chunk, more) ==
    SubSeq(chunk, 1, 4) \o pack_le(read_le_uint(chunk, 4) + more)
        \o SliceFrom(chunk, 8)

\* Index entries whose offsets count from the first byte after the 'movi'
\* tag: the first chunk of the payload at offset 0.
FromPayload(es) == [i \in 1..Len(es) |-> [es[i] EXCEPT !.offset = @ - 4]]

DamagedFile(kind) ==
    IF kind = "index-from-payload"
    THEN RiffFile(AVI_ \o GoodHeader \o GoodMovi
                       \o IndexOnDisk(FromPayload(EntriesOf(DamagedChunks))))
    ELSE IF kind = "not-riff"
    THEN <<0>> \o Tail(RiffFile(AVI_ \o GoodHeader \o GoodMovi \o GoodIdx1))
    ELSE IF kind = "no-movi" THEN RiffFile(AVI_ \o GoodHeader \o GoodIdx1)
    ELSE IF kind = "no-idx1" THEN RiffFile(AVI_ \o GoodHeader \o GoodMovi)
    ELSE IF kind = "list-truncated"
    THEN RiffFile(AVI_ \o GoodHeader \o GoodMovi \o LIST \o pack_le(4))
    ELSE IF kind = "movi-overrun"
    THEN RiffFile(AVI_ \o GoodHeader \o SubSeq(Declaring(GoodMovi, 16), 1, Len(GoodMovi)))
    ELSE IF kind = "idx1-trailing"
    THEN RiffFile(AVI_ \o GoodHeader \o GoodMovi
                       \o Declaring(GoodIdx1, 4) \o Zeros(4))
    ELSE IF kind = "idx1-overrun"
    THEN RiffFile(AVI_ \o GoodHeader \o GoodMovi \o Declaring(GoodIdx1, 16))
    ELSE IF kind = "strl-overrun"
    THEN RiffFile(AVI_ \o RiffList(hdrl, AvihChunk \o Declaring(AudioStream, 8))
                       \o GoodMovi \o GoodIdx1)
    ELSE IF kind = "avih-overrun"   \* avih declares 56 bytes and holds four
    THEN RiffFile(AVI_ \o RiffList(hdrl, Declaring(RiffChunk(avih, Zeros(4)), 52))
                       \o GoodMovi \o GoodIdx1)
    ELSE \* "avih-short": the main header chunk holds four bytes only
         RiffFile(AVI_ \o RiffList(hdrl, RiffChunk(avih, Zeros(4)))
                       \o GoodMovi \o GoodIdx1)

DamageKinds ==
    { "not-riff", "no-movi", "no-idx1", "list-truncated", "movi-overrun",
      "idx1-trailing", "idx1-overrun", "strl-overrun", "avih-short",
      "avih-overrun",
      "index-from-payload" }

DamagedFiles ==
    {[bytes |-> DamagedFile(k), fault |-> [kind |-> k, at |-> 0]] : k \in DamageKinds}

\* The policy damaged files are rewritten with.
PlainPolicy == Policy(1, 0, MaxGap, None, None, NoOptions, TRUE)

\* Files the parser accepts although an encoder would not lay them out so:
\* the index before the movi list, and a movi list of odd size (its last
\* chunk is not padded; the pad byte follows the list).
OddLayouts == {"index-first", "odd-movi"}
UnpaddedMovi ==
    LET body == SubSeq(PayloadOf(DamagedChunks), 1, Len(PayloadOf(DamagedChunks)) - 1)
    IN  LIST \o pack_le(4 + Len(body)) \o movi \o body \o <<0>>
OddFile(layout) ==
    IF layout = "index-first"
    THEN RiffFile(AVI_ \o GoodHeader \o GoodIdx1 \o GoodMovi)
    ELSE RiffFile(AVI_ \o GoodHeader \o UnpaddedMovi \o GoodIdx1)
OddFiles == {[bytes |-> OddFile(l), fault |-> NoFault] : l \in OddLayouts}

\* Policies of the rewrites of the model: a quota, zero or one copy at the
\* largest cadence, either convention for appended clips; one invalid.
\* Policies of the rewrites whose output path names an input file.
InPlacePolicies ==
    {Policy(keep, 0, MaxGap, None, None, NoOptions, TRUE) : keep \in {0, MaxKeep}}

RewritePolicies ==
    {Policy(keep, dup, MaxGap, None, None, NoOptions, daf) :
        keep \in 0..MaxKeep, dup \in 0..1, daf \in BOOLEAN}
    \cup {Policy(1, 1, 0, None, None, NoOptions, TRUE)}

----------------------------------------------------------------------------
(* The rewrite orchestrator: rewrite_avi (Spec).                           *)

Init ==
    /\ pc = "rewrite_avi"
    /\ \/ \E src \in SourceFiles \cup OddFiles, extras \in ExtraLists :
             /\ disk = [source |-> src.bytes, extra |-> extras, output |-> None,
                        output_path |-> FreshPath]
             /\ extra_inputs = [k \in 1..Len(extras) |-> k]
             /\ fault = src.fault
             /\ policy \in RewritePolicies
       \/ \E src \in DamagedFiles :
             /\ disk = [source |-> src.bytes, extra |-> <<>>, output |-> None,
                        output_path |-> FreshPath]
             /\ extra_inputs = <<>>
             /\ fault = src.fault
             /\ policy = PlainPolicy
       \/ \E src \in SourceFiles, extras \in ExtraLists,
                path \in {SourcePath, FirstExtraPath} :
             /\ path = FirstExtraPath => Len(extras) >= 1
             /\ disk = [source |-> src.bytes, extra |-> extras, output |-> None,
                        output_path |-> path]
             /\ extra_inputs = [k \in 1..Len(extras) |-> k]
             /\ fault = src.fault
             /\ policy \in InPlacePolicies
    /\ clip_index = 0
    /\ chunks = <<>> /\ loop = LoopInit /\ built = NoBuilt
    /\ base = NoBase /\ header_offsets = NoOffsets
    /\ payload = <<>> /\ idx_entries = <<>>
    /\ spec = <<>> /\ manager = NoManager /\ call = NoCall /\ heap = <<>>
    /\ result = NoResult

Raise(kind) == pc' = "raised" /\ result' = Fail(kind)

\* Variant of ParseSource: the output file is opened for writing before the
\* source is parsed.
ParseSource_OpensOutput ==
    /\ pc = "rewrite_avi"
    /\ LET r == parse_avi_file(disk.source, 0) IN
       IF r.err # ""
       THEN Raise(r.err) /\ UNCHANGED <<base, chunks, clip_index>>
       ELSE /\ base' = [prefix |-> r.prefix, between |-> r.between,
                        suffix |-> r.suffix, chunks |-> r.chunks]
            /\ chunks' = r.chunks
            /\ clip_index' = 1
            /\ pc' = "extras"
            /\ UNCHANGED result
    /\ disk' = [disk EXCEPT !.output = Some(<<>>)]
    /\ UNCHANGED <<policy, loop, built, extra_inputs, header_offsets,
                   payload, idx_entries, fault, spec, manager, call,
                   heap>>

\* Line 553: base = parse_avi_file(source_path, clip_id=0), and line 555.
ParseSource ==
    /\ pc = "rewrite_avi"
    /\ LET r == parse_avi_file(disk.source, 0) IN
       IF r.err # ""
       THEN Raise(r.err) /\ UNCHANGED <<base, chunks, clip_index>>
       ELSE /\ base' = [prefix |-> r.prefix, between |-> r.between,
                        suffix |-> r.suffix, chunks |-> r.chunks]
            /\ chunks' = r.chunks
            /\ clip_index' = 1
            /\ pc' = "extras"
            /\ UNCHANGED result
    /\ UNCHANGED <<policy, loop, built, disk, extra_inputs, header_offsets,
                   payload, idx_entries, fault, spec, manager, call,
                   heap>>

\* Lines 556-558: one appended file parsed, its chunks appended.
ParseExtra ==
    /\ pc = "extras"
    /\ clip_index <= Len(extra_inputs)
    /\ LET r == parse_avi_file(disk.extra[extra_inputs[clip_index]], clip_index) IN
       IF r.err # ""
       THEN Raise(r.err) /\ UNCHANGED <<chunks, clip_index>>
       ELSE /\ chunks' = chunks \o r.chunks
            /\ clip_index' = clip_index + 1
            /\ pc' = "extras"
            /\ UNCHANGED result
    /\ UNCHANGED <<policy, loop, built, disk, extra_inputs, base,
                   header_offsets, payload, idx_entries, fault, spec, manager, call,
                   heap>>

\* Line 560: process_chunks is called on the concatenation.
CallProcess ==
    /\ pc = "extras"
    /\ clip_index > Len(extra_inputs)
    /\ pc' = "process_chunks"
    /\ UNCHANGED <<policy, chunks, loop, built, disk, extra_inputs, clip_index,
                   base, header_offsets, payload, idx_entries, fault, spec, manager, call, result,
                   heap>>

\* Lines 572-573: the header offsets located in the base prefix, then the
\* frame count written at each of them.
PatchHeaders ==
    /\ pc = "built"
    /\ LET found == find_header_offsets(base.prefix) IN
       IF found.err # ""
       THEN Raise(found.err) /\ UNCHANGED <<base, header_offsets>>
       ELSE LET patched == update_header_counts(base.prefix, found.found,
                                                built.video_frames) IN
            IF patched.err # ""
            THEN Raise(patched.err) /\ UNCHANGED <<base, header_offsets>>
            ELSE /\ header_offsets' = found.found
                 /\ base' = [base EXCEPT !.prefix = patched.prefix]
                 /\ pc' = "patched"
                 /\ UNCHANGED result
    /\ UNCHANGED <<policy, chunks, loop, built, disk, extra_inputs, clip_index,
                   payload, idx_entries, fault, spec, manager, call,
                   heap>>

\* Position of the RIFF size field.
RiffSizeAt == 4

\* Variant of Rebuilt: the bytes between movi and idx1 are left out.
Rebuilt_NoBetween(structure, movi_chunk, idx_chunk) ==
    LET rebuilt == structure.prefix \o movi_chunk \o idx_chunk \o structure.suffix
    IN  pack_le_uint(rebuilt, RiffSizeAt, Len(rebuilt) - 8)

\* Variant of Rebuilt: the RIFF size of the source is left in place.
Rebuilt_StaleSize(structure, movi_chunk, idx_chunk) ==
    structure.prefix \o movi_chunk \o structure.between
        \o idx_chunk \o structure.suffix

\* Lines 575-582: the output buffer, with its RIFF size.
Rebuilt(structure, movi_chunk, idx_chunk) ==
    LET rebuilt == structure.prefix \o movi_chunk \o structure.between
                       \o idx_chunk \o structure.suffix
    IN  pack_le_uint(rebuilt, RiffSizeAt, Len(rebuilt) - 8)

\* Line 584, Path.write_bytes: the file the path names gets the bytes; a
\* path that names an input file names the same file.
write_bytes(files, path, data) ==
    IF path = SourcePath THEN [files EXCEPT !.source = data]
    ELSE IF path = FirstExtraPath THEN [files EXCEPT !.extra[1] = data]
    ELSE [files EXCEPT !.output = Some(data)]

\* Lines 575-584: the output assembled and written.
WriteOutput ==
    /\ pc = "patched"
    /\ disk' = write_bytes(disk, disk.output_path,
                           Rebuilt(base, built.movi_chunk, built.idx_chunk))
    /\ pc' = "done"
    /\ UNCHANGED <<policy, chunks, loop, built, extra_inputs, clip_index, base,
                   header_offsets, payload, idx_entries, fault, spec, manager, call, result,
                   heap>>

Next ==
    \/ ParseSource \/ ParseExtra \/ CallProcess
    \/ RejectArgs \/ EnterLoop \/ Iterate \/ ReturnProcessed \/ Build
    \/ PatchHeaders \/ WriteOutput

Spec == Init /\ [][Next]_vars

----------------------------------------------------------------------------
(* The rewrite seen from the source file and the output file.              *)

IsVideo(c) == c.is_video

\* The output written to a path of its own, where it can be compared with
\* the inputs it was made from.
Written == pc = "done" /\ disk.output_path = FreshPath
Output == Val(disk.output)

\* The movi list of the source file follows the prefix; its idx1 chunk is the
\* first top-level chunk with that tag.
SourceMovi ==
    LET at == Len(base.prefix) IN
    Slice(disk.source, at, at + 8 + read_le_uint(disk.source, at + 4))
SourceIdx1 ==
    LET top == RiffChunks(disk.source, FirstChunkPos)
        k == CHOOSE i \in 1..Len(top) :
                 top[i].tag = idx1 /\ \A j \in 1..(i - 1) : top[j].tag # idx1
    IN  idx1 \o pack_le(top[k].size) \o top[k].data

\* The positions of the source's header where the encoder wrote the frame
\* count of the file, of its first video stream and of its extended index.
StaleFields == {pack_le(StaleMain), pack_le(StaleStream), pack_le(StaleOdml)}
FrameCountFields ==
    {p \in FirstChunkPos..(Len(base.prefix) - 4) :
        Slice(disk.source, p, p + 4) \in StaleFields}

(* C3: after rewrite_avi the main total-frame field, the first video       *)
(* stream's length field and every dmlh total-frame field of the output    *)
(* hold one number, the count of video chunks of the processed sequence.   *)
C3_FrameCountPatched ==
    Written =>
        /\ built.video_frames = Count(result.processed, IsVideo)
        /\ \A p \in FrameCountFields :
              read_le_uint(Output, p) = Count(result.processed, IsVideo)

\* A file with all three kinds of field, an appended clip, a dropped
\* keyframe and an inserted copy.
C3_Witness ==
    /\ Written
    /\ Cardinality(FrameCountFields) = 4
    /\ Len(extra_inputs) = 1
    /\ MixedDropAndDup
    /\ Count(result.processed, IsVideo) < Len(result.processed)

(* C4: in every file written by rewrite_avi the little-endian RIFF size at *)
(* byte offset 4 is the length of the output minus 8.                      *)
C4_RiffSize ==
    Written => read_le_uint(Output, 4) = Len(Output) - 8

\* An output of another length than its source, with between-bytes and a
\* suffix.
C4_Witness ==
    /\ Written
    /\ Len(Output) # Len(disk.source)
    /\ Len(base.between) > 0 /\ Len(base.suffix) > 0
    /\ MixedDropAndDup

\* Keep-all and no copies, for every clip of the input: no explicit sets, no
\* drop-first rule, a quota no smaller than the clip's keyframe count.
KeepAll ==
    \A c \in ClipIds :
        LET clip == ResolveOptions(policy, c) IN
        Len(KeysOf(chunks, c)) + Len(PredsOf(chunks, c)) > 0 =>
            /\ NoExplicitSets(c)
            /\ ~clip.drop_first
            /\ clip.keep_limit >= Len(KeysOf(chunks, c))
            /\ clip.dup_count = 0

(* C9: round trip. With keep-all and no copies the processed sequence is   *)
(* the chunk sequence of the file (tags, flags, data, order), and the      *)
(* rebuilt movi list and idx1 chunk of a single file are those of the      *)
(* source, every index entry with its offset.                              *)
C9_RoundTrip ==
    (pc \in {"build", "built", "patched", "done"} /\ KeepAll) =>
        /\ result.processed = chunks
        /\ (pc # "build" /\ Len(extra_inputs) = 0) =>
              /\ MoviChunksOf(built.movi_chunk) = MoviChunksOf(SourceMovi)
              /\ IndexEntriesOf(built.idx_chunk) = IndexEntriesOf(SourceIdx1)
              /\ Len(IndexEntriesOf(SourceIdx1)) = Len(chunks)

\* A single file of two chunks, the first of odd size, one a keyframe.
C9_Witness ==
    /\ Written /\ KeepAll
    /\ Len(extra_inputs) = 0
    /\ Len(chunks) = 2
    /\ Len(chunks[1].data) % 2 = 1
    /\ Count(chunks, IsKey) >= 1

----------------------------------------------------------------------------
(* The scenario of the specification (SpecScenario): one clip              *)
(* [K0, P0, P1, P2, K1, P3] under every policy of the model.               *)

ScenarioKinds ==
    <<KeyKind, PredKind, PredKind, PredKind, KeyKind, PredKind>>
Scenario == [i \in 1..Len(ScenarioKinds) |-> KindChunk(ScenarioKinds[i], i, 0)]

InitScenario ==
    /\ pc = "process_chunks"
    /\ policy \in Policies
    /\ chunks = Scenario
    /\ loop = LoopInit
    /\ built = NoBuilt
    /\ result = NoResult
    /\ Idle

SpecScenario == InitScenario /\ [][NextSelect]_vars

\* keep-leading-keyframes 1, one copy every second predicted frame, the
\* first keyframe not dropped, no explicit sets.
ScenarioPolicy ==
    /\ ResolveOptions(policy, 0)
         = [ keep_limit |-> 1, dup_count |-> 1, dup_gap |-> 2,
             drop_first |-> FALSE, keep_set |-> None, drop_set |-> None ]
    /\ IsNone(policy.keep_key_indices) /\ IsNone(policy.drop_key_indices)

\* The processed sequence and the frame count the scenario is stated with.
StatedSequence ==
    << Scenario[1], Scenario[2], Scenario[3], Scenario[3], Scenario[4],
       Scenario[6] >>
StatedFrames == Len(StatedSequence) - 1

\* C8 as stated: the output is [K0, P0, P1, P1', P2, P3] and the
\* video-frame count is 5.
C8_Original ==
    (chunks = Scenario /\ ScenarioPolicy) =>
        /\ Returned => result.processed = StatedSequence
        /\ pc = "built" => built.video_frames = StatedFrames

(* C8: [K0, P0, P1, P2, K1, P3] with keep-leading-keyframes 1, duplicate   *)
(* count 1, cadence 2 and drop-first off gives                             *)
(* [K0, P0, P1, P1', P2, P3, P3']: K1 is dropped, P1 and P3 (the second    *)
(* and the fourth predicted frame) are each followed by one copy, and the  *)
(* video-frame count is 7.                                                 *)
C8_Scenario ==
    (chunks = Scenario /\ ScenarioPolicy) =>
        /\ Returned =>
              result.processed
                  = << Scenario[1], Scenario[2], Scenario[3], Scenario[3],
                       Scenario[4], Scenario[6], Scenario[6] >>
        /\ pc = "built" =>
              /\ built.video_frames = Len(result.processed)
              /\ Len(result.processed) = Len(Scenario) + 1

C8_Witness ==
    /\ pc = "built" /\ chunks = Scenario /\ ScenarioPolicy
    /\ result.err = ""
    /\ built.video_frames > Len(Scenario)

----------------------------------------------------------------------------
(* Failures and the output file.                                           *)

Raised == pc = "raised"

\* The step that writes a file.
WritesOutput == disk' # disk

(* C11: a rewrite that fails has written nothing to the output path, and   *)
(* the output is written once, by the last step, after every input has     *)
(* been parsed, the selection pass has returned and the buffer has been    *)
(* assembled from the rebuilt movi and idx1.                               *)
C11_WriteLast ==
    /\ [](Raised => IsNone(disk.output))
    /\ [][WritesOutput =>
            /\ IsNone(disk.output)
            /\ pc = "patched" /\ pc' = "done"
            /\ clip_index > Len(extra_inputs)
            /\ result.err = "" /\ result.processed = loop.processed
            /\ LoopDone(loop, chunks)
            /\ built = build_movi_and_index(result.processed)
            /\ disk' = write_bytes(disk, disk.output_path,
                                   Rebuilt(base, built.movi_chunk, built.idx_chunk))
         ]_vars
    /\ [][pc = "done" => ~WritesOutput]_vars

\* Every input was parsed and the policy was rejected: no output.
C11_Witness ==
    /\ Raised /\ result.err = ValueError
    /\ Len(extra_inputs) = 1 /\ clip_index = 2
    /\ Len(chunks) >= 2
    /\ IsNone(disk.output)

\* An appended file was rejected after the base file was accepted.
C11_WitnessExtra ==
    /\ Raised /\ result.err = AviParseError
    /\ clip_index = 1 /\ Len(base.chunks) >= 1
    /\ IsNone(disk.output)

----------------------------------------------------------------------------
(* Invalid policies.                                                       *)

\* A negative duplicate count or a cadence that is not positive.
BadCadence(count, gap) == count < 0 \/ gap <= 0

\* The clips whose policy the pass resolves: those of the video chunks.
ResolvedClips(cs) == {cs[i].clip_id : i \in {j \in 1..Len(cs) : cs[j].is_video}}

InvalidConfiguration ==
    \/ BadCadence(policy.duplicate_count, policy.duplicate_gap)
    \/ \E c \in ResolvedClips(chunks) :
          BadCadence(ResolveOptions(policy, c).dup_count,
                     ResolveOptions(policy, c).dup_gap)

(* C12: process_chunks raises ValueError and returns nothing exactly when  *)
(* the global duplicate count is negative or the global cadence is not     *)
(* positive, or the policy resolved for the clip of some video chunk has a *)
(* negative duplicate count or a non-positive cadence; the global values   *)
(* are rejected before any chunk is looked at.                             *)
C12_InvalidConfiguration ==
    /\ Raised =>
          /\ InvalidConfiguration
          /\ result = Fail(ValueError)
          /\ built = NoBuilt
    /\ (Raised /\ BadCadence(policy.duplicate_count, policy.duplicate_gap)) =>
          loop = LoopInit
    /\ Returned => ~InvalidConfiguration

\* Valid global values, an invalid override for the clip of the second
\* video chunk: the pass raised after it had kept a chunk.
C12_Witness ==
    /\ Raised
    /\ ~BadCadence(policy.duplicate_count, policy.duplicate_gap)
    /\ Len(loop.processed) >= 1
    /\ loop.i >= 2

\* Invalid global values and no chunk at all.
C12_WitnessGlobal ==
    /\ Raised /\ chunks = <<>>
    /\ BadCadence(policy.duplicate_count, policy.duplicate_gap)

----------------------------------------------------------------------------
(* The kinds of failure of a rewrite.                                      *)

\* The source of the rewrite is a damaged container.
Malformed == fault.kind # "none"

(* C13: every failure of a rewrite is of a declared kind: a malformed      *)
(* container is reported as AviParseError, an invalid policy as            *)
(* ValueError, and nothing else escapes from parsing, header location or   *)
(* header patching.                                                        *)
C13_DeclaredKinds ==
    /\ Raised =>
          /\ result.err \in {AviParseError, ValueError}
          /\ Malformed => result.err = AviParseError
          /\ result.err = ValueError => InvalidConfiguration
    /\ Malformed => pc # "done"

\* The failures that are of a declared kind in the rewrites of the model.
C13_DeclaredWhere ==
    Raised =>
        \/ result.err = AviParseError
             /\ (fault.kind \in DamageKinds \cup {"offset+1"}
                 \/ Len(extra_inputs) = 1)
        \/ result.err = ValueError /\ InvalidConfiguration /\ ~Malformed
        \/ result.err = StructError
             /\ fault.kind \in {"idx1-overrun", "strl-overrun", "avih-short",
                                "avih-overrun"}

\* A low-level read failed in parse_idx1, in the header walk, and a
\* low-level write failed in the header patch.
C13_EscapeIndex == Raised /\ result.err = StructError /\ fault.kind = "idx1-overrun"
C13_EscapeWalk == Raised /\ result.err = StructError /\ fault.kind = "strl-overrun"
C13_EscapePatch == Raised /\ result.err = StructError /\ fault.kind = "avih-short"

----------------------------------------------------------------------------
(* The written file read again.                                            *)

\* The written file handed to parse_avi_file.
Reparsed == parse_avi_file(Output, 0)

\* Tag, flags and data of the chunks of a sequence.
Contents(cs) ==
    [i \in 1..Len(cs) |->
        [chunk_id |-> cs[i].chunk_id, flags |-> cs[i].flags, data |-> cs[i].data]]

(* C14: every file written by rewrite_avi is accepted by parse_avi_file,   *)
(* and the chunks extracted from it are the processed sequence in tag,     *)
(* flags and data.                                                         *)
C14_OutputParses ==
    Written =>
        /\ Reparsed.err = ""
        /\ Contents(Reparsed.chunks) = Contents(result.processed)

\* The layout of the source: the index after the movi list, and a movi list
\* of even size.
IndexFollowsMovi ==
    LET top == RiffChunks(disk.source, FirstChunkPos) IN
    \A i \in 1..Len(top) : top[i].tag = idx1 => top[i].pos > Len(base.prefix)
EvenMovi == read_le_uint(disk.source, Len(base.prefix) + 4) % 2 = 0

\* What holds of the written file when the source is laid out that way.
C14_UsualLayout ==
    (Written /\ IndexFollowsMovi /\ EvenMovi) =>
        /\ Reparsed.err = ""
        /\ Contents(Reparsed.chunks) = Contents(result.processed)

\* The written files that are not accepted: an odd layout of the source.
C14_Rejected == Written /\ Reparsed.err # ""
C14_RejectedOddMovi == C14_Rejected /\ ~EvenMovi /\ Len(extra_inputs) = 0
C14_RejectedIndexFirst == C14_Rejected /\ ~IndexFollowsMovi /\ Len(extra_inputs) = 0

----------------------------------------------------------------------------
(* The keyframe-index-set parser: parse_keyframe_spec.                     *)
(* A str is a sequence of one-character strings.                           *)

MaxSpecLen == 5     \* characters of the argument of parse_keyframe_spec

Comma == ","
Dash == "-"
Blank == " "
Digits == {"0", "1", "2", "3", "4", "5", "6", "7", "8", "9"}
DigitValue ==
    [c \in Digits |->
        CASE c = "0" -> 0 [] c = "1" -> 1 [] c = "2" -> 2 [] c = "3" -> 3
          [] c = "4" -> 4 [] c = "5" -> 5 [] c = "6" -> 6 [] c = "7" -> 7
          [] c = "8" -> 8 [] c = "9" -> 9]

\* Position of the first occurrence of ch in s, 0 when there is none.
Find(s, ch) ==
    IF \E i \in 1..Len(s) : s[i] = ch
    THEN CHOOSE i \in 1..Len(s) : s[i] = ch /\ \A j \in 1..(i - 1) : s[j] # ch
    ELSE 0

\* s.split(sep): the parts between the occurrences of sep, all of them.
RECURSIVE split(_, _)
split(s, sep) ==
    LET at == Find(s, sep) IN
    IF at = 0 THEN <<s>>
    ELSE <<SubSeq(s, 1, at - 1)>> \o split(SubSeq(s, at + 1, Len(s)), sep)

\* s.split(sep, 1) of a string that contains sep: the two sides of the first.
split_once(s, sep) ==
    LET at == Find(s, sep) IN
    <<SubSeq(s, 1, at - 1), SubSeq(s, at + 1, Len(s))>>

\* s.strip()
RECURSIVE strip(_)
strip(s) ==
    IF Len(s) > 0 /\ s[1] = Blank THEN strip(Tail(s))
    ELSE IF Len(s) > 0 /\ s[Len(s)] = Blank THEN strip(SubSeq(s, 1, Len(s) - 1))
    ELSE s

RECURSIVE DecimalValue(_)
DecimalValue(ds) ==
    IF Len(ds) = 0 THEN 0
    ELSE 10 * DecimalValue(SubSeq(ds, 1, Len(ds) - 1)) + DigitValue[ds[Len(ds)]]

\* int(s, 10) on the characters of the model: blanks around, an optional
\* minus sign, then one or more digits; anything else raises ValueError.
int10(s) ==
    LET t == strip(s)
        negative == Len(t) > 0 /\ t[1] = Dash
        ds == IF negative THEN Tail(t) ELSE t
    IN  IF Len(ds) > 0 /\ \A i \in 1..Len(ds) : ds[i] \in Digits
        THEN [err |-> "", value |-> IF negative THEN 0 - DecimalValue(ds)
                                    ELSE DecimalValue(ds)]
        ELSE Fail(ValueError)

\* Variant of PartIndices: the end of a range is left out.
PartIndices_HalfOpen(part) ==
    IF Find(part, Dash) # 0
    THEN LET sides == split_once(part, Dash)
             start == int10(sides[1])
             end == int10(sides[2])
         IN  IF start.err # "" \/ end.err # "" THEN Fail(ValueError)
             ELSE IF end.value < start.value THEN Fail(ValueError)
             ELSE [err |-> "", indices |-> start.value .. (end.value - 1)]
    ELSE LET n == int10(part) IN
         IF n.err # "" THEN Fail(ValueError)
         ELSE [err |-> "", indices |-> {n.value}]

\* Variant of PartIndices: a range whose end is before its start is empty.
PartIndices_EmptyRange(part) ==
    IF Find(part, Dash) # 0
    THEN LET sides == split_once(part, Dash)
             start == int10(sides[1])
             end == int10(sides[2])
         IN  IF start.err # "" \/ end.err # "" THEN Fail(ValueError)
             ELSE [err |-> "", indices |-> start.value .. end.value]
    ELSE LET n == int10(part) IN
         IF n.err # "" THEN Fail(ValueError)
         ELSE [err |-> "", indices |-> {n.value}]

\* Lines 605-619: the indices one stripped, non-empty part adds.
PartIndices(part) ==
    IF Find(part, Dash) # 0
    THEN LET sides == split_once(part, Dash)
             start == int10(sides[1])
             end == int10(sides[2])
         IN  IF start.err # "" \/ end.err # "" THEN Fail(ValueError)
             ELSE IF end.value < start.value THEN Fail(ValueError)
             ELSE [err |-> "", indices |-> start.value .. end.value]
    ELSE LET n == int10(part) IN
         IF n.err # "" THEN Fail(ValueError)
         ELSE [err |-> "", indices |-> {n.value}]

\* Lines 601-619: the loop over the parts, from part k on.
RECURSIVE PartsLoop(_, _, _)
PartsLoop(parts, k, acc) ==
    IF k > Len(parts) THEN [err |-> "", indices |-> acc]
    ELSE LET part == strip(parts[k]) IN
         IF Len(part) = 0 THEN PartsLoop(parts, k + 1, acc)
         ELSE LET r == PartIndices(part) IN
              IF r.err # "" THEN Fail(r.err)
              ELSE PartsLoop(parts, k + 1, acc \cup r.indices)

parse_keyframe_spec(s) ==
    IF Len(s) = 0 THEN [err |-> "", indices |-> {}]
    ELSE PartsLoop(split(s, Comma), 1, {})

\* The characters and the arguments of the model.
Alphabet == {"0", "1", "2", Comma, Dash, Blank, "x"}
SpecStrings == UNION {[1..n -> Alphabet] : n \in 0..MaxSpecLen}

InitKeys ==
    /\ pc = "parse_keyframe_spec"
    /\ spec \in SpecStrings
    /\ policy = Policy(0, 0, 1, None, None, NoOptions, TRUE)
    /\ chunks = <<>> /\ loop = LoopInit /\ built = NoBuilt /\ result = NoResult
    /\ disk = NoDisk /\ extra_inputs = <<>> /\ clip_index = 0 /\ base = NoBase
    /\ header_offsets = NoOffsets
    /\ payload = <<>> /\ idx_entries = <<>> /\ fault = NoFault
    /\ manager = NoManager /\ call = NoCall /\ heap = <<>>

ParseKeys ==
    /\ pc = "parse_keyframe_spec"
    /\ result' = parse_keyframe_spec(spec)
    /\ pc' = IF result'.err = "" THEN "returned" ELSE "raised"
    /\ UNCHANGED <<policy, chunks, loop, built, disk, extra_inputs, clip_index,
                   base, header_offsets, payload, idx_entries, fault, spec,
                   manager, call,
                   heap>>

NextKeys == ParseKeys

SpecKeys == InitKeys /\ [][NextKeys]_vars

\* The tokens of a specification: what stands between its commas, without
\* the blanks around it.
CommaCuts(s) == {0, Len(s) + 1} \cup {i \in 1..Len(s) : s[i] = Comma}
Tokens(s) ==
    LET cuts == CommaCuts(s)
        adjacent == {p \in cuts \X cuts :
                        p[1] < p[2] /\ \A c \in cuts : ~(p[1] < c /\ c < p[2])}
    IN  {strip(SubSeq(s, p[1] + 1, p[2] - 1)) : p \in adjacent}

IsNumeral(t) == Len(t) > 0 /\ \A i \in 1..Len(t) : t[i] \in Digits

\* A token a-b: a numeral, a dash, a numeral.
IsRangeToken(t) ==
    \E k \in 2..(Len(t) - 1) :
        t[k] = Dash /\ IsNumeral(SubSeq(t, 1, k - 1))
                    /\ IsNumeral(SubSeq(t, k + 1, Len(t)))
RangeStart(t) == DecimalValue(SubSeq(t, 1, Find(t, Dash) - 1))
RangeEnd(t) == DecimalValue(SubSeq(t, Find(t, Dash) + 1, Len(t)))

\* The set a token denotes.
Denoted(t) ==
    IF IsNumeral(t) THEN {DecimalValue(t)}
    ELSE IF IsRangeToken(t)
    THEN {n \in 0..RangeEnd(t) : RangeStart(t) <= n}
    ELSE {}

\* Tokens n and a-b with a <= b; a token of blanks only denotes nothing.
WellFormed(t) ==
    \/ Len(t) = 0
    \/ IsNumeral(t)
    \/ IsRangeToken(t) /\ RangeStart(t) <= RangeEnd(t)

\* The same tokens in reverse order, and every token twice.
RECURSIVE Join(_)
Join(parts) ==
    IF Len(parts) = 0 THEN <<>>
    ELSE IF Len(parts) = 1 THEN parts[1]
    ELSE parts[1] \o <<Comma>> \o Join(Tail(parts))
Reversed(s) ==
    LET parts == split(s, Comma) IN
    Join([k \in 1..Len(parts) |-> parts[Len(parts) + 1 - k]])
Twice(s) == IF Len(s) = 0 THEN s ELSE s \o <<Comma>> \o s

KeysDone == pc \in {"returned", "raised"}

(* C15: parse_keyframe_spec returns exactly the union of the sets denoted  *)
(* by the comma-separated tokens (n denotes {n}, a-b with a <= b denotes   *)
(* a..b), the empty string gives the empty set, and the outcome does not   *)
(* depend on the order or the repetition of the tokens.                    *)
C15_UnionOfTokens ==
    KeysDone =>
        /\ (\A t \in Tokens(spec) : WellFormed(t)) =>
              /\ pc = "returned"
              /\ result.indices = UNION {Denoted(t) : t \in Tokens(spec)}
        /\ spec = <<>> => result = [err |-> "", indices |-> {}]
        /\ parse_keyframe_spec(Reversed(spec)) = result
        /\ parse_keyframe_spec(Twice(spec)) = result

\* A range and a single index inside it, the range last.
C15_Witness ==
    /\ pc = "returned"
    /\ Cardinality(Tokens(spec)) = 2
    /\ \E t \in Tokens(spec) : IsRangeToken(t) /\ RangeStart(t) < RangeEnd(t)
    /\ \E t \in Tokens(spec) : IsNumeral(t)
    /\ IsNumeral(SubSeq(spec, 1, 1))
    /\ Cardinality(result.indices) = 3

\* An integer as int() reads it: a numeral, or a minus sign and a numeral.
IsInteger(t) == IsNumeral(t) \/ (Len(t) > 1 /\ t[1] = Dash /\ IsNumeral(Tail(t)))
IntegerValue(t) ==
    IF t[1] = Dash THEN 0 - DecimalValue(Tail(t)) ELSE DecimalValue(t)

\* The two sides of a token at its first dash, blanks around them removed.
LeftSide(t) == strip(SubSeq(t, 1, Find(t, Dash) - 1))
RightSide(t) == strip(SubSeq(t, Find(t, Dash) + 1, Len(t)))

\* A token that is not a number and not a range of numbers.
NonNumeric(t) ==
    /\ Len(t) > 0
    /\ IF Find(t, Dash) = 0 THEN ~IsNumeral(t)
       ELSE ~(IsNumeral(LeftSide(t)) /\ IsInteger(RightSide(t)))

\* A range whose end is smaller than its start.
Inverted(t) ==
    /\ Find(t, Dash) # 0
    /\ IsNumeral(LeftSide(t)) /\ IsInteger(RightSide(t))
    /\ IntegerValue(RightSide(t)) < DecimalValue(LeftSide(t))

(* C16: parse_keyframe_spec raises ValueError and returns no set exactly   *)
(* when some token is non-numeric or is a range whose end is smaller than  *)
(* its start, wherever the token stands among the others.                  *)
C16_BadTokenRejected ==
    KeysDone =>
        /\ (\E t \in Tokens(spec) : NonNumeric(t) \/ Inverted(t))
              <=> (pc = "raised")
        /\ pc = "raised" => result = Fail(ValueError)

\* An inverted range after a valid token, and a letter between two valid
\* tokens.
C16_Witness ==
    /\ pc = "raised"
    /\ \E t \in Tokens(spec) : Inverted(t)
    /\ IsNumeral(SubSeq(spec, 1, 1)) /\ Len(spec) >= 2 /\ spec[2] = Comma

C16_WitnessLetter ==
    /\ pc = "raised"
    /\ Len(spec) = 5 /\ spec[3] = "x"
    /\ IsNumeral(SubSeq(spec, 1, 1)) /\ IsNumeral(SubSeq(spec, 5, 5))
    /\ spec[2] = Comma /\ spec[4] = Comma

----------------------------------------------------------------------------
(* The parts of the base file in the written file.                         *)

\* The first movi list and the first idx1 chunk among the top-level chunks
\* of the source file.
SourceTop == RiffChunks(disk.source, FirstChunkPos)
IsMoviList(c) == c.tag = LIST /\ SubSeq(c.data, 1, 4) = movi
FirstAmong(top, Test(_)) ==
    top[CHOOSE i \in 1..Len(top) : Test(top[i]) /\ \A j \in 1..(i - 1) : ~Test(top[j])]
IsIdx1(c) == c.tag = idx1
SourceMoviAt == FirstAmong(SourceTop, IsMoviList)
SourceIdx1At == FirstAmong(SourceTop, IsIdx1)

\* The three parts of the source file around its movi list and its index.
SourcePrefix == Slice(disk.source, 0, SourceMoviAt.pos)
SourceBetween ==
    Slice(disk.source, SourceMoviAt.pos + 8 + SourceMoviAt.size, SourceIdx1At.pos)
SourceSuffix == SliceFrom(disk.source, SourceIdx1At.pos + 8 + SourceIdx1At.size)

\* Tag and data of the chunks inside the first movi list of a file.
TagAndData(cs) == [i \in 1..Len(cs) |-> <<cs[i].tag, cs[i].data>>]
MoviOf(file) ==
    TagAndData(RiffChunks(
        SliceFrom(FirstAmong(RiffChunks(file, FirstChunkPos), IsMoviList).data, 4), 0))
RECURSIVE MoviOfAll(_)
MoviOfAll(files) ==
    IF Len(files) = 0 THEN <<>> ELSE MoviOf(Head(files)) \o MoviOfAll(Tail(files))

\* The positions of the prefix a rewrite may change: the RIFF size and the
\* four bytes of each frame-count field.
Patchable ==
    RiffSizeAt..(RiffSizeAt + 3)
        \cup UNION {p..(p + 3) : p \in FrameCountFields}

(* C17: the written file is the base prefix, the new movi list, the base   *)
(* file's between-bytes, the new idx1 chunk and the base file's suffix, in *)
(* this order; between-bytes and suffix are those of the base file, the    *)
(* prefix keeps its length and differs from the base prefix only in bytes  *)
(* 4..7 and in the frame-count fields; appended files add only chunks.     *)
C17_OutputLayout ==
    Written =>
        LET n == Len(SourcePrefix)
            prefix == Slice(Output, 0, n)
        IN  /\ Output = prefix \o built.movi_chunk \o SourceBetween
                               \o built.idx_chunk \o SourceSuffix
            /\ Len(prefix) = n
            /\ \A k \in 0..(n - 1) :
                  At(prefix, k) # At(SourcePrefix, k) => k \in Patchable
            /\ MoviChunksOf(built.movi_chunk)
                 = RiffChunks(PayloadOf(result.processed), 0)
            /\ Contents(result.processed)
                 = Contents(process_chunks(chunks, policy).processed)
            /\ [i \in 1..Len(chunks) |-> <<chunks[i].chunk_id, chunks[i].data>>]
                 = MoviOf(disk.source) \o MoviOfAll(disk.extra)

\* A base file with all header fields, between-bytes and a suffix, and an
\* appended file with a header of its own.
C17_Witness ==
    /\ Written
    /\ Len(extra_inputs) = 1
    /\ Cardinality(FrameCountFields) = 4
    /\ Len(SourceBetween) > 0 /\ Len(SourceSuffix) > 0
    /\ Slice(Output, 0, Len(SourcePrefix)) # SourcePrefix
    /\ Len(result.processed) >= 2

----------------------------------------------------------------------------
(* The input files across a rewrite.                                       *)

\* The rewrite was given an output path that names one of its input files.
InPlace == disk.output_path # FreshPath

\* A step that leaves the base file and the appended files as they were.
InputsKept == disk'.source = disk.source /\ disk'.extra = disk.extra

(* C18: no step of a rewrite, successful or failed, changes the contents   *)
(* of the base file or of an appended file.                                *)
C18_SourcesUntouched == [][InputsKept]_vars

\* What holds: the inputs are kept by every step of a rewrite whose output
\* path names none of them, and by every step of a rewrite that fails.
C18_FreshPathKeepsInputs ==
    [][(~InPlace \/ pc' # "done") => InputsKept]_vars

\* The base file was overwritten by an output that dropped some of its
\* chunks: a second run of the same rewrite would read another movi list.
C18_Overwritten ==
    /\ pc = "done" /\ disk.output_path = SourcePath
    /\ MoviOf(disk.source) = result.processed
    /\ Len(result.processed) < Len(base.chunks)

\* An appended file was overwritten by the output.
C18_OverwrittenExtra ==
    /\ pc = "done" /\ disk.output_path = FirstExtraPath
    /\ disk.extra[1] = Rebuilt(base, built.movi_chunk, built.idx_chunk)
    /\ Len(MoviOf(disk.extra[1])) = Len(result.processed)
    /\ Len(result.processed) > Len(base.chunks)

----------------------------------------------------------------------------
(* Where index offsets are measured from.                                  *)

\* The base file was accepted by parse_avi_file.
SourceAccepted == base # NoBase

\* The chunks of a movi list with their positions in the payload (position
\* 0 is the first byte after the 'movi' tag), beside the entries of an
\* index: the distance of entry i from the position of chunk i.
OffsetOrigins(movi_chunk, idx_chunk) ==
    LET mv == MoviChunksOf(movi_chunk)
        ix == IndexEntriesOf(idx_chunk)
    IN  {ix[i].offset - mv[i].pos : i \in 1..Len(mv)}

MeasuredFrom(origin) ==
    /\ SourceAccepted =>
          /\ Len(MoviChunksOf(SourceMovi)) = Len(IndexEntriesOf(SourceIdx1))
          /\ OffsetOrigins(SourceMovi, SourceIdx1) \subseteq {origin}
    /\ pc \in {"built", "patched", "done"} =>
          /\ Len(MoviChunksOf(built.movi_chunk)) = Len(IndexEntriesOf(built.idx_chunk))
          /\ OffsetOrigins(built.movi_chunk, built.idx_chunk) \subseteq {origin}

(* C19: every index entry offset, of an input that parse_movi_chunks       *)
(* accepts and of the index build_movi_and_index writes, is the distance   *)
(* of the chunk's header from the first byte after the 4-byte 'movi' tag:  *)
(* the first chunk of the payload has offset 0.                            *)
C19_Original == MeasuredFrom(0)

(* C19, as the code has it: every such offset is the distance of the       *)
(* chunk's header from the first byte of the 4-byte 'movi' tag, four more  *)
(* than its position in the payload: the first chunk has offset 4, and an  *)
(* input whose offsets count from the end of the tag is rejected.          *)
C19_OffsetsFromTag ==
    /\ MeasuredFrom(4)
    /\ fault.kind = "index-from-payload" =>
          /\ ~SourceAccepted
          /\ pc # "rewrite_avi" => (Raised /\ result.err = AviParseError)

\* A file of two chunks or more was accepted and an index of two entries
\* or more was written.
C19_Witness ==
    /\ Written
    /\ Len(IndexEntriesOf(SourceIdx1)) >= 2
    /\ Len(IndexEntriesOf(built.idx_chunk)) >= 2
    /\ IndexEntriesOf(built.idx_chunk)[1].offset = 4
    /\ IndexEntriesOf(SliceFrom(Output, Len(base.prefix) + Len(built.movi_chunk)
                                            + Len(base.between)))[1].offset = 4

\* The file whose first entry has offset 0 was rejected.
C19_WitnessRejected ==
    /\ Raised /\ fault.kind = "index-from-payload"
    /\ result.err = AviParseError
    /\ IndexEntriesOf(SourceIdx1)[1].offset = 0

----------------------------------------------------------------------------
(* The shortcut registry: shortcuts.ShortcutManager (SpecShortcuts).       *)

\* Modifier: the members and their values.
CTRL == "Control"
SHIFT == "Shift"
ALT == "Alt"
CMD == "Command"

\* The order of str on the values of Modifier.
ValueOrder == <<ALT, CMD, CTRL, SHIFT>>
StrLess(a, b) ==
    \E i, j \in 1..Len(ValueOrder) :
        ValueOrder[i] = a /\ ValueOrder[j] = b /\ i < j

\* sorted(values): the values in ascending order, repeated values kept.
RECURSIVE sorted(_)
sorted(values) ==
    IF values = <<>> THEN <<>>
    ELSE LET rest == sorted(Tail(values))
             before == SelectSeq(rest, LAMBDA v : StrLess(v, Head(values)))
             after == SelectSeq(rest, LAMBDA v : ~StrLess(v, Head(values)))
         IN  before \o <<Head(values)>> \o after

\* sep.join(parts); a string is the sequence of its pieces.
RECURSIVE join(_, _)
join(sep, parts) ==
    IF parts = <<>> THEN <<>>
    ELSE IF Len(parts) = 1 THEN <<parts[1]>>
    ELSE <<parts[1], sep>> \o join(sep, Tail(parts))

\* Variant of _make_key_string_from_parts: the modifiers joined in the
\* order they were given.
make_key_string_from_parts_Unsorted(key, modifiers) ==
    LET mod_str == join(Dash, modifiers)
    IN  IF mod_str # <<>> THEN <<"<">> \o mod_str \o <<Dash, key, ">">>
        ELSE <<"<", key, ">">>

\* Lines 163-167.
make_key_string_from_parts(key, modifiers) ==
    LET mod_str == join(Dash, sorted(modifiers))
    IN  IF mod_str # <<>> THEN <<"<">> \o mod_str \o <<Dash, key, ">">>
        ELSE <<"<", key, ">">>

\* Lines 159-161.
make_key_string(shortcut) ==
    make_key_string_from_parts(shortcut.key, shortcut.modifiers)

\* dict: d[k] = v and del d[k].
SetItem(d, k, v) == [x \in DOMAIN d \cup {k} |-> IF x = k THEN v ELSE d[x]]
DelItem(d, k) == [x \in DOMAIN d \ {k} |-> d[x]]

\* Lines 169-181 and 183-186: root.bind and root.unbind on the key string.
bind_shortcut(m, shortcut) ==
    [m EXCEPT !.bound = SetItem(@, make_key_string(shortcut), shortcut)]
unbind_shortcut(m, shortcut) ==
    [m EXCEPT !.bound = DelItem(@, make_key_string(shortcut))]

\* Lines 63-75: the manager after register, or the error raised.
register(m, shortcut, override) ==
    LET key_string == make_key_string(shortcut) IN
    IF key_string \in DOMAIN m.shortcuts /\ ~override
    THEN [err |-> ValueError, manager |-> m]
    ELSE [err |-> "",
          manager |-> bind_shortcut(
                          [m EXCEPT !.shortcuts = SetItem(@, key_string, shortcut)],
                          shortcut)]

\* Lines 82-87.
unregister(m, key, modifiers) ==
    LET key_string == make_key_string_from_parts(key, modifiers) IN
    IF key_string \in DOMAIN m.shortcuts
    THEN [unbind_shortcut(m, m.shortcuts[key_string])
             EXCEPT !.shortcuts = DelItem(@, key_string)]
    ELSE m

\* The shortcuts of the model: the key o under every tuple of at most two
\* modifiers out of Control and Shift, the key s bare; two callbacks.
ModifierTuples ==
    { <<>>, <<CTRL>>, <<SHIFT>>, <<CTRL, SHIFT>>, <<SHIFT, CTRL>>, <<CTRL, CTRL>> }
KeyParts == {<<"o", t>> : t \in ModifierTuples} \cup {<<"s", <<>>>>}
Callbacks == {"Open", "Override"}
Shortcut(key, modifiers, callback) ==
    [key |-> key, modifiers |-> modifiers, callback |-> callback,
     description |-> callback]
Shortcuts == {Shortcut(p[1], p[2], c) : p \in KeyParts, c \in Callbacks}

InitShortcuts ==
    /\ pc = "idle"
    /\ manager = NoManager /\ call = NoCall /\ heap = <<>>
    /\ spec = <<>>
    /\ policy = Policy(0, 0, 1, None, None, NoOptions, TRUE)
    /\ chunks = <<>> /\ loop = LoopInit /\ built = NoBuilt /\ result = NoResult
    /\ disk = NoDisk /\ extra_inputs = <<>> /\ clip_index = 0 /\ base = NoBase
    /\ header_offsets = NoOffsets
    /\ payload = <<>> /\ idx_entries = <<>> /\ fault = NoFault

Register ==
    \E shortcut \in Shortcuts, override \in BOOLEAN :
        LET r == register(manager, shortcut, override) IN
        /\ manager' = r.manager
        /\ result' = Fail(r.err)
        /\ pc' = IF r.err = "" THEN "returned" ELSE "raised"
        /\ call' = [name |-> "register", key |-> shortcut.key,
                    modifiers |-> shortcut.modifiers,
                    callback |-> shortcut.callback, override |-> override]
        /\ UNCHANGED <<policy, chunks, loop, built, disk, extra_inputs,
                       clip_index, base, header_offsets, payload, idx_entries,
                       fault, spec,
                   heap>>

Unregister ==
    \E p \in KeyParts :
        /\ manager' = unregister(manager, p[1], p[2])
        /\ result' = NoResult
        /\ pc' = "returned"
        /\ call' = [name |-> "unregister", key |-> p[1], modifiers |-> p[2],
                    callback |-> "", override |-> FALSE]
        /\ UNCHANGED <<policy, chunks, loop, built, disk, extra_inputs,
                       clip_index, base, header_offsets, payload, idx_entries,
                       fault, spec,
                   heap>>

NextShortcuts == Register \/ Unregister

SpecShortcuts == InitShortcuts /\ [][NextShortcuts]_vars

----------------------------------------------------------------------------
(* The registry seen through the key combinations.                         *)

Elements(seq) == {seq[i] : i \in 1..Len(seq)}

\* Two shortcuts, or calls, for the same key and the same set of modifiers.
SameCombination(a, b) ==
    a.key = b.key /\ Elements(a.modifiers) = Elements(b.modifiers)

\* Two shortcuts, or calls, for the same key and the same modifiers, each
\* as often as the other.
SameModifierList(a, b) ==
    a.key = b.key /\ sorted(a.modifiers) = sorted(b.modifiers)

Registered(m) == {m.shortcuts[k] : k \in DOMAIN m.shortcuts}

\* What the registry keeps under the relation Same between shortcuts: no
\* two registered shortcuts are the same; register without override on an
\* occupied one raises ValueError and changes nothing; register with
\* override on an occupied one puts the new shortcut in the place of the
\* old one, in the registry and in the bindings.
OnePer(Same(_, _)) ==
    /\ \A k1, k2 \in DOMAIN manager.shortcuts :
          Same(manager.shortcuts[k1], manager.shortcuts[k2]) => k1 = k2
    /\ DOMAIN manager.bound = DOMAIN manager.shortcuts
Conflict(Same(_, _)) ==
    (/\ call'.name = "register" /\ ~call'.override
     /\ \E s \in Registered(manager) : Same(s, call'))
       => (result'.err = ValueError /\ manager' = manager)
Override(Same(_, _)) ==
    (/\ call'.name = "register" /\ call'.override
     /\ \E s \in Registered(manager) : Same(s, call'))
       => /\ result'.err = ""
          /\ Cardinality(Registered(manager')) = Cardinality(Registered(manager))
          /\ Cardinality(DOMAIN manager'.shortcuts)
                = Cardinality(DOMAIN manager.shortcuts)
          /\ \E s \in Registered(manager') :
                /\ Same(s, call') /\ s.callback = call'.callback
                /\ manager'.bound[make_key_string(s)] = s

(* C20: after any sequence of register and unregister calls the manager    *)
(* holds at most one shortcut per key and set of modifiers; register       *)
(* without override on an occupied combination raises ValueError and       *)
(* leaves the registry and the bindings unchanged; register with override  *)
(* replaces the shortcut and keeps the number of registered combinations.  *)
C20_OnePerCombination ==
    /\ []OnePer(SameCombination)
    /\ [][Conflict(SameCombination) /\ Override(SameCombination)]_vars

\* What holds: the same with the modifiers counted as a sorted list, in
\* which a modifier given twice differs from the modifier given once.
C20_OnePerModifierList ==
    /\ []OnePer(SameModifierList)
    /\ [][Conflict(SameModifierList) /\ Override(SameModifierList)]_vars

\* Two shortcuts are registered for the key o with Control.
C20_TwoForOneCombination ==
    \E k1, k2 \in DOMAIN manager.shortcuts :
        /\ k1 # k2
        /\ SameCombination(manager.shortcuts[k1], manager.shortcuts[k2])
        /\ manager.shortcuts[k1].modifiers = <<CTRL>>
        /\ manager.shortcuts[k2].modifiers = <<CTRL, CTRL>>

\* A conflict was raised for modifiers given in another order.
C20_ConflictAnyOrder ==
    /\ pc = "raised" /\ result.err = ValueError
    /\ call.modifiers = <<SHIFT, CTRL>>
    /\ \E s \in Registered(manager) :
          s.key = call.key /\ s.modifiers = <<CTRL, SHIFT>>

----------------------------------------------------------------------------
(* Chunks that are not video.                                              *)

IsNonVideo(c) == ~c.is_video
NonVideoOf(s) == SelectSeq(s, IsNonVideo)
VideoOf(s) == SelectSeq(s, IsVideo)

\* The counters of the pass.
Counters(st) ==
    <<st.global_key_index, st.per_clip_key_index, st.per_clip_keys_kept,
      st.per_clip_p_counter>>

\* The pass on the input without its non-video chunks.
VideoOnly == process_chunks(VideoOf(chunks), policy)

C21_Step ==
    Visits(IsNonVideo) =>
        /\ loop'.processed = Append(loop.processed, Current)
        /\ Counters(loop') = Counters(loop)

C21_Total ==
    /\ Returned =>
          /\ NonVideoOf(result.processed) = NonVideoOf(chunks)
          /\ VideoOnly.err = ""
          /\ VideoOf(result.processed) = VideoOnly.processed
    /\ pc = "raised" => VideoOnly.err = ValueError

(* C21: a chunk that is not video is appended to the output as it is and   *)
(* changes no counter; the non-video chunks of the output are those of the *)
(* input, once each and in order, and the video chunks of the output are   *)
(* the output of the pass on the input without its non-video chunks.       *)
C21_NonVideoPassThrough == [](C21_Total) /\ [][C21_Step]_vars

\* An audio chunk stood between two predicted frames of a clip whose second
\* predicted frame was copied, and a keyframe flag on audio was kept.
C21_Witness ==
    /\ Returned
    /\ Len(chunks) = 3
    /\ IsPred(chunks[1]) /\ IsNonVideo(chunks[2]) /\ IsPred(chunks[3])
    /\ chunks[1].clip_id = chunks[3].clip_id
    /\ HasKeyBit(chunks[2].flags)
    /\ ResolveOptions(policy, chunks[1].clip_id).dup_gap = 2
    /\ Len(result.processed) > 3
    /\ result.processed[2] = chunks[2]

----------------------------------------------------------------------------
(* The order of the output.                                                *)

\* d is an inserted copy of the predicted frame c.
IsCopyOf(d, c) ==
    /\ IsPred(c) /\ IsPred(d)
    /\ d.chunk_id = c.chunk_id /\ d.data = c.data /\ d.clip_id = c.clip_id
    /\ ~HasKeyBit(d.flags)

\* out, from position j on, is made of the chunks of cs from position i on
\* in their order, each either left out or present once and followed by
\* copies of itself and of nothing else.
RECURSIVE InOrder(_, _, _, _)
InOrder(cs, i, out, j) ==
    IF i > Len(cs) THEN j > Len(out)
    ELSE \/ InOrder(cs, i + 1, out, j)
         \/ /\ j <= Len(out) /\ out[j] = cs[i]
            /\ \E n \in 0..(Len(out) - j) :
                  /\ \A k \in 1..n : IsCopyOf(out[j + k], cs[i])
                  /\ InOrder(cs, i + 1, out, j + n + 1)

Grouped(s) == \A i \in 1..Len(s) : \A j \in i..Len(s) : s[i].clip_id <= s[j].clip_id

C22_Step ==
    (pc = "loop" /\ pc' = "loop" /\ loop' # loop) =>
        LET was == Len(loop.processed)
            now == Len(loop'.processed)
        IN  /\ now >= was
            /\ Prefix(loop'.processed, was) = loop.processed
            /\ now > was =>
                  /\ loop'.processed[was + 1] = Current
                  /\ \A k \in (was + 2)..now : IsCopyOf(loop'.processed[k], Current)

(* C22: the pass never reorders: every iteration leaves what was emitted   *)
(* where it is and appends nothing, or the chunk it looks at followed by   *)
(* copies of that chunk; the output is the input in its order, each chunk  *)
(* left out or present once with its copies directly after it, and its     *)
(* clips are grouped as those of the input.                                *)
C22_NeverReorders ==
    /\ [](Returned => (InOrder(chunks, 1, result.processed, 1)
                        /\ Grouped(result.processed)))
    /\ [][C22_Step]_vars

\* A keyframe was dropped between two surviving chunks of two clips and the
\* last chunk was copied.
C22_Witness ==
    /\ Returned
    /\ Len(chunks) = 3 /\ IsKey(chunks[2]) /\ IsPred(chunks[3])
    /\ chunks[1].clip_id < chunks[3].clip_id
    /\ Len(result.processed) >= 3
    /\ result.processed[1] = chunks[1]
    /\ result.processed[2] = chunks[3]
    /\ IsCopyOf(result.processed[3], chunks[3])

----------------------------------------------------------------------------
(* The pass on objects: AviChunk.clone and the copies (SpecObjects).       *)
(* An object is its position in heap; chunks holds the values the input    *)
(* objects had before the call; loop.processed holds object ids.           *)

\* Variant of clone_object: the chunk itself is handed back.
clone_object_SameObject(h, ref) == [heap |-> h, ref |-> ref]

\* AviChunk.clone (lines 38-48): a new object with the fields of the old.
clone_object(h, ref) == [heap |-> Append(h, clone(h[ref])), ref |-> Len(h) + 1]

\* Lines 418-419: clone.flags &= ~AVIIF_KEYFRAME; clone.is_keyframe = False.
clear_keyframe(h, ref) ==
    [h EXCEPT ![ref].flags = ClearKeyBit(@), ![ref].is_keyframe = FALSE]

\* processed.append(chunk.clone()) on the pass state st and the heap h.
AppendClone(st, h, ref) ==
    LET c == clone_object(h, ref) IN
    [st |-> [st EXCEPT !.processed = Append(@, c.ref)], heap |-> c.heap]

\* Lines 415-420: n copies of the object ref, each made and then cleared.
RECURSIVE AppendCopies(_, _, _, _)
AppendCopies(st, h, ref, n) ==
    IF n = 0 THEN [st |-> st, heap |-> h]
    ELSE LET c == clone_object(h, ref) IN
         AppendCopies([st EXCEPT !.processed = Append(@, c.ref)],
                      clear_keyframe(c.heap, c.ref), ref, n - 1)

\* Lines 366-420 on the object ref.
ObjectBody(st, h, ref, pol) ==
    LET chunk == h[ref]
        clip_id == chunk.clip_id
        clip == ResolveOptions(pol, clip_id)
    IN  IF ~chunk.is_video THEN AppendClone(st, h, ref)
        ELSE IF clip.dup_count < 0 \/ clip.dup_gap <= 0
        THEN [st |-> [st EXCEPT !.err = ValueError], heap |-> h]
        ELSE IF chunk.is_keyframe
        THEN LET keep == KeepKeyframe(clip, pol, st.per_clip_key_index[clip_id],
                             st.global_key_index, st.per_clip_keys_kept[clip_id])
                 counted == [st EXCEPT
                               !.per_clip_keys_kept[clip_id] = IF keep THEN @ + 1 ELSE @,
                               !.per_clip_key_index[clip_id] = @ + 1,
                               !.global_key_index = @ + 1]
             IN  IF keep THEN AppendClone(counted, h, ref)
                 ELSE [st |-> counted, heap |-> h]
        ELSE LET p == st.per_clip_p_counter[clip_id] + 1
                 emitted == AppendClone([st EXCEPT !.per_clip_p_counter[clip_id] = p],
                                        h, ref)
             IN  IF DuplicateNow(clip, p)
                 THEN AppendCopies(emitted.st, emitted.heap, ref, clip.dup_count)
                 ELSE emitted

\* A predicted frame built by a caller with the keyframe bit left in its
\* flags (the fields of AviChunk are independent of each other).
FlaggedPred(i, clip_id) ==
    [MakeChunk(Tag00dc, AVIIF_KEYFRAME, Payload(i, 1), clip_id)
        EXCEPT !.is_keyframe = FALSE]

ObjectKinds == Kinds \cup {"F"}
ObjectSeqs ==
    UNION {{[i \in 1..n |-> IF ks[i] = "F" THEN FlaggedPred(i, cl[i])
                            ELSE KindChunk(ks[i], i, cl[i])] :
               ks \in [1..n -> ObjectKinds], cl \in ClipAssignments(n)} :
           n \in 0..MaxChunks}

ObjectPolicies ==
    {Policy(keep, dup, MaxGap, None, None, NoOptions, TRUE) :
        keep \in 0..1, dup \in 0..MaxDup}
    \cup {Policy(1, 1, 0, None, None, NoOptions, TRUE)}

InitObjects ==
    /\ pc = "process_chunks"
    /\ policy \in ObjectPolicies
    /\ chunks \in ObjectSeqs
    /\ heap = chunks
    /\ loop = LoopInit
    /\ built = NoBuilt
    /\ result = NoResult
    /\ disk = NoDisk /\ extra_inputs = <<>> /\ clip_index = 0 /\ base = NoBase
    /\ header_offsets = NoOffsets
    /\ payload = <<>> /\ idx_entries = <<>> /\ fault = NoFault
    /\ spec = <<>> /\ manager = NoManager /\ call = NoCall

FrameObjects ==
    UNCHANGED <<disk, extra_inputs, clip_index, base, header_offsets, payload,
                idx_entries, fault, policy, chunks, spec, manager, call, built>>

\* Lines 355-358 on the objects.
EnterObjects ==
    /\ pc = "process_chunks"
    /\ IF ArgsValid(policy)
       THEN pc' = "loop" /\ UNCHANGED result
       ELSE pc' = "raised" /\ result' = Fail(ValueError)
    /\ UNCHANGED <<loop, heap>>
    /\ FrameObjects

\* One iteration of "for chunk in chunks": the input object loop.i.
IterateObjects ==
    /\ pc = "loop"
    /\ ~LoopDone(loop, chunks)
    /\ LET r == ObjectBody(loop, heap, loop.i, policy) IN
       /\ loop' = [r.st EXCEPT !.i = @ + 1]
       /\ heap' = r.heap
    /\ IF loop'.err # ""
       THEN pc' = "raised" /\ result' = Fail(loop'.err)
       ELSE pc' = "loop" /\ UNCHANGED result
    /\ FrameObjects

\* Line 422: the list of objects is returned.
ReturnObjects ==
    /\ pc = "loop"
    /\ LoopDone(loop, chunks)
    /\ pc' = "returned"
    /\ result' = [err |-> "", processed |-> loop.processed]
    /\ UNCHANGED <<loop, heap>>
    /\ FrameObjects

NextObjects == EnterObjects \/ IterateObjects \/ ReturnObjects

SpecObjects == InitObjects /\ [][NextObjects]_vars

\* The input objects and the values of a list of objects.
InputObjects == 1..Len(chunks)
Deref(refs) == [i \in 1..Len(refs) |-> heap[refs[i]]]

\* The input objects hold what they held before the call.
InputKept == \A ref \in InputObjects : heap[ref] = chunks[ref]

\* The objects of a list are distinct from each other and from the input.
Fresh(refs) ==
    /\ \A i, j \in 1..Len(refs) : refs[i] = refs[j] => i = j
    /\ \A i \in 1..Len(refs) : refs[i] \notin InputObjects

(* C23: the pass leaves every input object with the tag, flags, data,      *)
(* is_video and is_keyframe it had, every output chunk is an object of its *)
(* own, made by the pass, and the values of the output objects are the     *)
(* output of the pass on values; clearing the keyframe flag of a copy      *)
(* changes that copy and no other object.                                  *)
C23_InputUnchanged ==
    /\ [](/\ InputKept
          /\ Fresh(loop.processed)
          /\ pc = "returned" =>
                /\ process_chunks(chunks, policy).err = ""
                /\ Deref(result.processed) = process_chunks(chunks, policy).processed)
    /\ [][\A ref \in 1..Len(heap) : heap'[ref] = heap[ref]]_vars

\* A predicted frame with the keyframe bit in its flags was copied twice:
\* the copies have the bit clear, the source and its clone have it set.
C23_Witness ==
    /\ pc = "returned"
    /\ \E i \in 1..(Len(result.processed) - 2) :
          LET src == heap[result.processed[i]] IN
          /\ HasKeyBit(src.flags) /\ ~src.is_keyframe /\ src.is_video
          /\ ~HasKeyBit(heap[result.processed[i + 1]].flags)
          /\ ~HasKeyBit(heap[result.processed[i + 2]].flags)
          /\ heap[result.processed[i + 1]].data = src.data
          /\ \E ref \in InputObjects : HasKeyBit(heap[ref].flags) /\ heap[ref] = src

----------------------------------------------------------------------------
(* Which policy a clip is processed under.                                 *)

HasEntry(clip_id) == clip_id \in DOMAIN policy.clip_options
Entry(clip_id) == policy.clip_options[clip_id]
Appended(clip_id) == clip_id >= 1

\* The policy of a clip as stated: the entry of the clip, or the global
\* arguments and the default for appended clips.
StatedClip(clip_id) ==
    [ keep_limit |-> IF HasEntry(clip_id) THEN Entry(clip_id).keep_initial_keyframes
                     ELSE policy.keep_initial_keyframes,
      dup_count |-> IF HasEntry(clip_id) THEN Entry(clip_id).duplicate_count
                    ELSE policy.duplicate_count,
      dup_gap |-> IF HasEntry(clip_id) THEN Entry(clip_id).duplicate_gap
                  ELSE policy.duplicate_gap,
      drop_first |-> IF HasEntry(clip_id) THEN Entry(clip_id).drop_first_keyframe
                     ELSE Appended(clip_id) /\ policy.drop_appended_first,
      keep_set |-> IF HasEntry(clip_id) THEN Entry(clip_id).keep_specific_keys ELSE None,
      drop_set |-> IF HasEntry(clip_id) THEN Entry(clip_id).drop_specific_keys ELSE None ]

\* What an iteration on a video chunk appends under the stated policy of its
\* clip: the ordinals and the counts are taken from the input and the output.
StatedStep ==
    LET c == Current
        clip == StatedClip(c.clip_id)
        l == Len(KeysOf(Before, c.clip_id))
        g == Count(Before, IsKey)
        kept == Len(KeysOf(loop.processed, c.clip_id))
        m == Len(PredsOf(Before, c.clip_id)) + 1
    IN  IF IsKey(c)
        THEN IF FirstRule(clip, policy, l, g, kept) \in DropRules THEN 0 ELSE 1
        ELSE IF clip.dup_count > 0 /\ m % clip.dup_gap = 0 THEN 1 + clip.dup_count
        ELSE 1

(* C24: a clip with an entry in clip_options is processed with the quota,  *)
(* count, cadence, drop-first flag and sets of its entry, whatever         *)
(* drop_appended_first is; a clip without one with the global quota, count *)
(* and cadence, no sets of its own, and its first keyframe dropped iff it  *)
(* is appended and drop_appended_first is set.                             *)
C24_PolicyResolution ==
    /\ [](\A c \in ClipIds : ResolveOptions(policy, c) = StatedClip(c))
    /\ [][Visits(IsVideo) =>
            Len(loop'.processed) = Len(loop.processed) + StatedStep]_vars

\* Under drop_appended_first an appended clip with an entry that switches
\* drop-first off kept its first keyframe.
C24_Witness ==
    /\ Returned
    /\ policy.drop_appended_first
    /\ HasEntry(1) /\ ~Entry(1).drop_first_keyframe
    /\ Len(KeysOf(chunks, 1)) >= 1
    /\ Len(KeysOf(result.processed, 1)) >= 1
    /\ KeysOf(result.processed, 1)[1] = KeysOf(chunks, 1)[1]

\* An appended clip without an entry lost its first keyframe while the base
\* clip, with an entry that switches drop-first on, lost its own.
C24_WitnessFallback ==
    /\ Returned
    /\ HasEntry(0) /\ Entry(0).drop_first_keyframe /\ ~HasEntry(1)
    /\ Len(KeysOf(chunks, 0)) = 1 /\ Len(KeysOf(chunks, 1)) = 1
    /\ Count(result.processed, IsKey) = 0

----------------------------------------------------------------------------
(* Header offsets: find_header_offsets and update_header_counts on         *)
(* prefixes of many shapes (SpecHeaders).                                  *)

JunkChunk == RiffChunk(JUNK, Zeros(3))

\* What a header list can hold, one after the other.
MaxParts == 3
HeaderParts ==
    { "avih", "auds", "vids", "mixed", "odml", "odml2", "junk", "dmlh", "strh" }

HeaderPart(part) ==
    IF part = "avih" THEN AvihChunk
    ELSE IF part = "auds" THEN AudioStream
    ELSE IF part = "vids" THEN VideoStream(StaleStream)
    ELSE IF part = "mixed"   \* an audio header, then a video header, one list
    THEN RiffList(strl, StrhChunk(auds, AudioLength) \o JunkChunk
                            \o StrhChunk(vids, StaleStream)
                            \o StrhChunk(vids, StaleStream))
    ELSE IF part = "odml" THEN RiffList(odml, DmlhChunk)
    ELSE IF part = "odml2" THEN RiffList(odml, DmlhChunk \o JunkChunk \o DmlhChunk)
    ELSE IF part = "junk" THEN JunkChunk
    ELSE IF part = "dmlh" THEN DmlhChunk                  \* outside any odml list
    ELSE StrhChunk(vids, StaleStream)                     \* outside any strl list

HeaderBody(parts) == Flatten([i \in 1..Len(parts) |-> HeaderPart(parts[i])])

\* What stands beside the header list at the top level of the prefix.
Strays == {"none", "before", "after", "second"}
PrefixOf(parts, stray) ==
    LET header == RiffList(hdrl, HeaderBody(parts))
        loose == AvihChunk \o VideoStream(StaleStream) \o RiffList(odml, DmlhChunk)
        body == IF stray = "before" THEN AVI_ \o loose \o header
                ELSE IF stray = "after" THEN AVI_ \o header \o loose
                ELSE IF stray = "second"
                THEN AVI_ \o header \o RiffList(hdrl, loose)
                ELSE AVI_ \o header
    IN  RIFF \o pack_le(Len(body)) \o body

Prefixes ==
    {PrefixOf(parts, stray) :
        parts \in UNION {[1..n -> HeaderParts] : n \in 0..MaxParts},
        stray \in Strays}

\* The frame count handed to update_header_counts.
PatchedCount == 7

InitHeaders ==
    /\ pc = "find_header_offsets"
    /\ \E prefix \in Prefixes :
          /\ disk = [NoDisk EXCEPT !.source = prefix]
          /\ base = [NoBase EXCEPT !.prefix = prefix]
    /\ header_offsets = NoOffsets
    /\ built = [NoBuilt EXCEPT !.video_frames = PatchedCount]
    /\ policy = Policy(0, 0, 1, None, None, NoOptions, TRUE)
    /\ chunks = <<>> /\ loop = LoopInit /\ result = NoResult
    /\ extra_inputs = <<>> /\ clip_index = 0
    /\ payload = <<>> /\ idx_entries = <<>> /\ fault = NoFault
    /\ spec = <<>> /\ manager = NoManager /\ call = NoCall /\ heap = <<>>

FrameHeaders ==
    UNCHANGED <<policy, chunks, loop, built, disk, extra_inputs, clip_index,
                payload, idx_entries, fault, spec, manager, call, heap>>

\* Line 572: header_offsets = find_header_offsets(bytes(base.prefix)).
FindOffsets ==
    /\ pc = "find_header_offsets"
    /\ LET found == find_header_offsets(base.prefix) IN
       IF found.err # ""
       THEN Raise(found.err) /\ UNCHANGED header_offsets
       ELSE header_offsets' = found.found /\ pc' = "located" /\ UNCHANGED result
    /\ UNCHANGED base
    /\ FrameHeaders

\* Line 573: update_header_counts(base.prefix, header_offsets, frame_count).
PatchCounts ==
    /\ pc = "located"
    /\ LET patched == update_header_counts(base.prefix, header_offsets,
                                           built.video_frames) IN
       IF patched.err # ""
       THEN Raise(patched.err) /\ UNCHANGED base
       ELSE base' = [base EXCEPT !.prefix = patched.prefix]
            /\ pc' = "patched" /\ UNCHANGED result
    /\ UNCHANGED header_offsets
    /\ FrameHeaders

NextHeaders == FindOffsets \/ PatchCounts

SpecHeaders == InitHeaders /\ [][NextHeaders]_vars

\* The chunks of the list (or chunk) c of the bytes b, with their positions
\* in b; for a list, the four bytes of its type are skipped.
ChildrenOf(b, c) ==
    LET inner == RiffChunks(Slice(b, c.pos + 12, c.pos + 8 + c.size), 0)
    IN  [i \in 1..Len(inner) |-> [inner[i] EXCEPT !.pos = @ + c.pos + 12]]
IsList(b, c, type) == c.tag = LIST /\ Slice(b, c.pos + 8, c.pos + 12) = type

\* The chunks of the lists of one type among the chunks cs, in file order.
RECURSIVE InLists(_, _, _)
InLists(b, cs, type) ==
    IF cs = <<>> THEN <<>>
    ELSE (IF IsList(b, Head(cs), type) THEN ChildrenOf(b, Head(cs)) ELSE <<>>)
         \o InLists(b, Tail(cs), type)

TaggedAs(cs, tag) == LET T(c) == c.tag = tag IN SelectSeq(cs, T)
FirstOf(cs) == IF cs = <<>> THEN <<>> ELSE <<Head(cs)>>

\* The fields of the prefix b as stated: inside LIST hdrl, the first avih,
\* the first strh of type vids of the strl lists, every dmlh of the odml
\* lists.
InHeader(b) == InLists(b, RiffChunks(b, FirstChunkPos), hdrl)
StatedMain(b) ==
    [i \in 1..Len(FirstOf(TaggedAs(InHeader(b), avih))) |->
        FirstOf(TaggedAs(InHeader(b), avih))[i].pos + 8 + 16]
StatedStream(b) ==
    LET VideoHeader(c) == c.tag = strh /\ Slice(b, c.pos + 8, c.pos + 12) = vids
        found == FirstOf(SelectSeq(InLists(b, InHeader(b), strl), VideoHeader))
    IN  [i \in 1..Len(found) |-> found[i].pos + 8 + 32]
StatedOdml(b) ==
    LET found == TaggedAs(InLists(b, InHeader(b), odml), dmlh)
    IN  [i \in 1..Len(found) |-> found[i].pos + 8]

Located == pc \in {"located", "patched"}
Original == disk.source
AllOffsets == WriteOrder(header_offsets)

(* C25: find_header_offsets gives, inside LIST hdrl only, the offset of    *)
(* the first avih chunk's total-frame field (data start + 16) if there is  *)
(* one, the offset of the length field of the first strh of type vids in   *)
(* a strl list (data start + 32) if there is one, and one offset for every *)
(* dmlh chunk of the odml lists (data start); a field that is not there is *)
(* absent, and patching writes the count at the offsets found and changes  *)
(* nothing else, without an error.                                         *)
C25_HeaderOffsets ==
    /\ pc # "raised"
    /\ Located =>
          /\ header_offsets.total_frames = StatedMain(Original)
          /\ header_offsets.video_stream_length = StatedStream(Original)
          /\ header_offsets.odml_total_frames = StatedOdml(Original)
    /\ pc = "patched" =>
          /\ Len(base.prefix) = Len(Original)
          /\ \A p \in 0..(Len(Original) - 1) :
                IF \E k \in 1..Len(AllOffsets) : p \in AllOffsets[k]..(AllOffsets[k] + 3)
                THEN \E k \in 1..Len(AllOffsets) :
                        /\ p \in AllOffsets[k]..(AllOffsets[k] + 3)
                        /\ read_le_uint(base.prefix, AllOffsets[k]) = PatchedCount
                ELSE At(base.prefix, p) = At(Original, p)

\* An audio stream came before two video streams, the extended header held
\* two dmlh chunks, and no main header was there.
C25_Witness ==
    /\ pc = "patched"
    /\ header_offsets.total_frames = None
    /\ Len(header_offsets.video_stream_length) = 1
    /\ Len(header_offsets.odml_total_frames) = 2
    /\ Len(TaggedAs(InLists(Original, InHeader(Original), strl), strh)) >= 3
    /\ read_le_uint(Original, header_offsets.video_stream_length[1]) = StaleStream
    /\ read_le_uint(base.prefix, header_offsets.video_stream_length[1]) = PatchedCount

\* Fields outside LIST hdrl, and a dmlh outside any odml list, were left.
C25_WitnessOutside ==
    /\ pc = "patched"
    /\ AllOffsets = <<>>
    /\ \E p \in 0..(Len(Original) - 4) : Slice(Original, p, p + 4) = pack_le(StaleMain)
    /\ \E p \in 0..(Len(Original) - 4) : Slice(Original, p, p + 4) = pack_le(StaleOdml)
    /\ base.prefix = Original

----------------------------------------------------------------------------
(* The container scanner on files of many shapes (SpecLocate).             *)

\* What the top level of a file can hold, one after the other.
MaxTop == 3
TopParts == {"hdrl", "movi", "movi2", "idx1", "idx2", "junk", "cut"}

TopPart(part) ==
    IF part = "hdrl" THEN RiffList(hdrl, AvihChunk)
    ELSE IF part = "movi" THEN RiffList(movi, <<>>)
    ELSE IF part = "movi2" THEN RiffList(movi, Zeros(3)) \o <<0>>   \* odd size, padded
    ELSE IF part = "idx1" THEN RiffChunk(idx1, <<>>)
    ELSE IF part = "idx2" THEN RiffChunk(idx1, Zeros(16))
    ELSE IF part = "junk" THEN RiffChunk(JUNK, Zeros(3))
    ELSE LIST \o pack_le(4)            \* a list header without its type

TopFiles ==
    {RiffFile(AVI_ \o Flatten([i \in 1..Len(parts) |-> TopPart(parts[i])])) :
        parts \in UNION {[1..n -> TopParts] : n \in 0..MaxTop}}

InitLocate ==
    /\ pc = "locate_chunks"
    /\ \E data \in TopFiles : disk = [NoDisk EXCEPT !.source = data]
    /\ policy = Policy(0, 0, 1, None, None, NoOptions, TRUE)
    /\ chunks = <<>> /\ loop = LoopInit /\ built = NoBuilt /\ result = NoResult
    /\ extra_inputs = <<>> /\ clip_index = 0 /\ base = NoBase
    /\ header_offsets = NoOffsets
    /\ payload = <<>> /\ idx_entries = <<>> /\ fault = NoFault
    /\ spec = <<>> /\ manager = NoManager /\ call = NoCall /\ heap = <<>>

Locate ==
    /\ pc = "locate_chunks"
    /\ result' = locate_chunks(disk.source)
    /\ pc' = IF result'.err = "" THEN "returned" ELSE "raised"
    /\ UNCHANGED <<policy, chunks, loop, built, disk, extra_inputs, clip_index,
                   base, header_offsets, payload, idx_entries, fault, spec,
                   manager, call, heap>>

NextLocate == Locate

SpecLocate == InitLocate /\ [][NextLocate]_vars

\* The top-level chunks of the file, walked from offset 12 by 8 + size
\* rounded up to even.
TopLevel == RiffChunks(disk.source, FirstChunkPos)
MoviAt(i) ==
    TopLevel[i].tag = LIST
        /\ Slice(disk.source, TopLevel[i].pos + 8, TopLevel[i].pos + 12) = movi
Idx1At(i) == TopLevel[i].tag = idx1
CutAt(i) == TopLevel[i].tag = LIST /\ TopLevel[i].pos + 12 > Len(disk.source)

\* Both chunks have been seen once chunk i has been looked at.
BothBy(i) == (\E j \in 1..i : MoviAt(j)) /\ (\E k \in 1..i : Idx1At(k))

\* The chunk the walk stops at: the first by which both were seen, or the
\* last chunk of the file.
StopsAt ==
    IF \E i \in 1..Len(TopLevel) : BothBy(i)
    THEN CHOOSE i \in 1..Len(TopLevel) : BothBy(i) /\ \A j \in 1..(i - 1) : ~BothBy(j)
    ELSE Len(TopLevel)

LastBefore(Hit(_)) ==
    CHOOSE i \in 1..StopsAt : Hit(i) /\ \A j \in (i + 1)..StopsAt : ~Hit(j)

(* C26: locate_chunks raises the parse error if a LIST it comes to has no  *)
(* room for its list type, if no LIST movi is found or if no idx1 is       *)
(* found; otherwise it returns the position and the declared size of the   *)
(* movi list and of the idx1 chunk it saw last when it stopped, at the     *)
(* first chunk by which both had been seen.                                *)
C26_LocateChunks ==
    pc # "locate_chunks" =>
        IF \/ \E i \in 1..StopsAt : CutAt(i)
           \/ ~(\E j \in 1..StopsAt : MoviAt(j))
           \/ ~(\E k \in 1..StopsAt : Idx1At(k))
        THEN pc = "raised" /\ result = Fail(AviParseError)
        ELSE /\ pc = "returned"
             /\ result.movi_pos = TopLevel[LastBefore(MoviAt)].pos
             /\ result.movi_size = TopLevel[LastBefore(MoviAt)].size
             /\ result.idx1_pos = TopLevel[LastBefore(Idx1At)].pos
             /\ result.idx1_size = TopLevel[LastBefore(Idx1At)].size
             /\ StopsAt \in {LastBefore(MoviAt), LastBefore(Idx1At)}

\* The walk stopped at the index after a padded movi list and left a later
\* index and list alone.
C26_Witness ==
    /\ pc = "returned"
    /\ Len(TopLevel) = 3 /\ StopsAt = 2
    /\ MoviAt(1) /\ TopLevel[1].size % 2 = 1
    /\ Idx1At(2) /\ Idx1At(3) /\ TopLevel[3].size # TopLevel[2].size
    /\ result.idx1_pos = TopLevel[2].pos

\* A list header without room for its type ended a file whose movi list had
\* been seen.
C26_WitnessCut ==
    /\ pc = "raised"
    /\ Len(TopLevel) >= 2 /\ MoviAt(1) /\ CutAt(Len(TopLevel))

\* A file without an index, and a file without a movi list.
C26_WitnessNoIndex ==
    /\ pc = "raised" /\ Len(TopLevel) >= 2
    /\ \E j \in 1..Len(TopLevel) : MoviAt(j)
    /\ \A i \in 1..Len(TopLevel) : ~Idx1At(i) /\ ~CutAt(i)

----------------------------------------------------------------------------
(* C27: which keyframes survive, in closed form.                           *)

\* The keyframes among the first n input chunks, and those of one clip.
KeyframesIn(n) == {j \in 1..n : chunks[j].is_keyframe}
KeyframesOf(c, n) == {j \in KeyframesIn(n) : chunks[j].clip_id = c}

\* Ordinals of the keyframe at input position j: within its clip, and overall.
ClipOrdinal(j) == Cardinality(KeyframesOf(chunks[j].clip_id, j - 1))
GlobalOrdinal(j) == Cardinality(KeyframesIn(j - 1))

\* The keyframe at j matches a drop rule.
MatchesDrop(j) ==
    LET clip == ResolveOptions(policy, chunks[j].clip_id) IN
    \/ clip.drop_first /\ ClipOrdinal(j) = 0
    \/ InOpt(ClipOrdinal(j), clip.drop_set)
    \/ InOpt(GlobalOrdinal(j), policy.drop_key_indices)

\* The keyframe at j is named by a keep-set.
InKeepSet(j) ==
    \/ InOpt(ClipOrdinal(j), ResolveOptions(policy, chunks[j].clip_id).keep_set)
    \/ InOpt(GlobalOrdinal(j), policy.keep_key_indices)

\* The keyframe at j is among the first K keyframes of its clip that match
\* no drop rule, K being the quota of the clip.
WithinQuota(j) ==
    Cardinality({m \in KeyframesOf(chunks[j].clip_id, j - 1) : ~MatchesDrop(m)})
        < ResolveOptions(policy, chunks[j].clip_id).keep_limit

Survives(j) == ~MatchesDrop(j) /\ (InKeepSet(j) \/ WithinQuota(j))

\* The surviving keyframes among the first n input chunks, in order.
RECURSIVE Survivors(_)
Survivors(n) ==
    IF n = 0 THEN <<>>
    ELSE IF chunks[n].is_keyframe /\ Survives(n)
         THEN Append(Survivors(n - 1), clone(chunks[n]))
         ELSE Survivors(n - 1)

IsKeyframe(chunk) == chunk.is_keyframe

RECURSIVE SumOver(_, _)
SumOver(f, S) ==
    IF S = {} THEN 0
    ELSE LET c == CHOOSE x \in S : TRUE IN f[c] + SumOver(f, S \ {c})

(* C27: at every step of the pass the keyframes in the output are exactly  *)
(* the keyframes read so far that match no drop rule and are either named  *)
(* by a keep-set or among the first K keyframes of their clip that match   *)
(* no drop rule (kept by a keep-set or not, these count toward K); the     *)
(* kept-count of a clip is at most its keyframe ordinal, and the global    *)
(* ordinal is the sum of the clips' ordinals.                              *)
C27_KeyframeSurvival ==
    pc \in {"loop", "build", "built"} =>
        /\ SelectSeq(loop.processed, IsKeyframe) = Survivors(loop.i - 1)
        /\ \A c \in ClipIds :
              /\ loop.per_clip_keys_kept[c] <= loop.per_clip_key_index[c]
              /\ loop.per_clip_key_index[c] = Cardinality(KeyframesOf(c, loop.i - 1))
              /\ loop.per_clip_keys_kept[c] =
                     Cardinality({j \in KeyframesOf(c, loop.i - 1) : Survives(j)})
        /\ loop.global_key_index = SumOver(loop.per_clip_key_index, ClipIds)

\* A keyframe named by the keep-set of its clip used up the quota: the next
\* keyframe of the clip, matching no drop rule, was left out.
C27_Witness ==
    /\ Returned
    /\ \E j \in KeyframesIn(Len(chunks)) : \E m \in KeyframesIn(Len(chunks)) :
          /\ j < m /\ chunks[j].clip_id = chunks[m].clip_id
          /\ InKeepSet(j) /\ Survives(j) /\ ~WithinQuota(m)
          /\ ClipOrdinal(m) = 1
          /\ ResolveOptions(policy, chunks[m].clip_id).keep_limit = 1
          /\ ~MatchesDrop(m) /\ ~Survives(m)
    /\ Len(SelectSeq(result.processed, IsKeyframe)) >= 1

\* A keyframe beyond the quota survived because a keep-set names it, after
\* an earlier one of the clip was dropped by a drop rule.
C27_WitnessForced ==
    /\ Returned
    /\ \E j \in KeyframesIn(Len(chunks)) : \E m \in KeyframesIn(Len(chunks)) :
          /\ j < m /\ chunks[j].clip_id = chunks[m].clip_id
          /\ MatchesDrop(j) /\ InKeepSet(m) /\ ~WithinQuota(m) /\ Survives(m)

----------------------------------------------------------------------------
(* C28: the clips are processed independently of one another.              *)

\* The chunks of one clip, in their order.
ClipChunks(s, c) == SelectSeq(s, LAMBDA chunk : chunk.clip_id = c)

NoGlobalSets == IsNone(policy.keep_key_indices) /\ IsNone(policy.drop_key_indices)

\* The policy of clip c alone: what the options resolve to for c, given as
\* the only entry of clip_options.
ResolvedAlone(c) ==
    LET clip == ResolveOptions(policy, c) IN
    [policy EXCEPT
        !.clip_options =
            [k \in {c} |-> ClipOptions(clip.keep_limit, clip.dup_count, clip.dup_gap,
                                       clip.drop_first, clip.keep_set, clip.drop_set)]]

(* C28: without a global keep-set and a global drop-set, the chunks of     *)
(* clip c in the output of process_chunks are the output of process_chunks *)
(* on the chunks of clip c alone, under the same policy and under the      *)
(* policy that holds nothing but what the options resolve to for c.        *)
C28_PerClipIndependence ==
    (Returned /\ NoGlobalSets) =>
        \A c \in ClipIds :
            /\ process_chunks(ClipChunks(chunks, c), policy)
                   = [err |-> "", processed |-> ClipChunks(result.processed, c)]
            /\ process_chunks(ClipChunks(chunks, c), ResolvedAlone(c))
                   = [err |-> "", processed |-> ClipChunks(result.processed, c)]

\* Two clips under different policies, chunks of each in the output, copies
\* inserted for the second one, a keyframe of the second one dropped.
C28_Witness ==
    /\ Returned /\ NoGlobalSets
    /\ ResolveOptions(policy, 0) # ResolveOptions(policy, 1)
    /\ ClipChunks(result.processed, 0) # <<>>
    /\ Len(ClipChunks(result.processed, 1)) > Len(SelectSeq(ClipChunks(chunks, 1), IsVideo))
    /\ \E i \in 1..Len(chunks) : chunks[i].clip_id = 1 /\ chunks[i].is_keyframe
                                    /\ ~Survives(i)
    /\ \E i \in 1..Len(chunks) : chunks[i].clip_id = 0 /\ ~chunks[i].is_keyframe
                                    /\ chunks[i].is_video

----------------------------------------------------------------------------
(* C29: duplication does not depend on the keyframe policy.                *)

\* A predicted frame, or a copy of one: video, not a keyframe.
IsPredicted(chunk) == chunk.is_video /\ ~chunk.is_keyframe
PredictedOf(s) == SelectSeq(s, IsPredicted)

\* The policy with the same cadence and the keyframe settings taken away:
\* no quota, no drop-first, no keep-set, no drop-set.
WithoutKeyPolicy(pol) ==
    [pol EXCEPT
        !.keep_initial_keyframes = 0,
        !.keep_key_indices = None,
        !.drop_key_indices = None,
        !.drop_appended_first = FALSE,
        !.clip_options =
            [c \in DOMAIN pol.clip_options |->
                ClipOptions(0, pol.clip_options[c].duplicate_count,
                            pol.clip_options[c].duplicate_gap, FALSE, None, None)]]

\* The chunks of the output that carry the payload of the input chunk at j.
EmittedFrom(j) ==
    {k \in 1..Len(result.processed) : result.processed[k].data = chunks[j].data}

(* C29: the predicted-frame counter of a clip is, at every step, the       *)
(* number of predicted frames of the clip read so far, whatever happened   *)
(* to the keyframes; the predicted frames and copies in the output are the *)
(* same as under the policy with every keyframe setting taken away, and    *)
(* the same as the output for the predicted frames alone; a keyframe that  *)
(* was dropped is nowhere in the output.                                   *)
C29_DuplicationApart ==
    /\ pc \in {"loop", "build", "built"} =>
          \A c \in ClipIds :
              loop.per_clip_p_counter[c] =
                  Cardinality({j \in 1..(loop.i - 1) :
                                  IsPredicted(chunks[j]) /\ chunks[j].clip_id = c})
    /\ Returned =>
          /\ process_chunks(PredictedOf(chunks), policy)
                 = [err |-> "", processed |-> PredictedOf(result.processed)]
          /\ process_chunks(chunks, WithoutKeyPolicy(policy)).err = ""
          /\ PredictedOf(process_chunks(chunks, WithoutKeyPolicy(policy)).processed)
                 = PredictedOf(result.processed)
          /\ \A j \in KeyframesIn(Len(chunks)) :
                 IF Survives(j) THEN Cardinality(EmittedFrom(j)) = 1
                 ELSE EmittedFrom(j) = {}

\* Copies were inserted with a cadence of two in a clip where a dropped
\* keyframe stood between the first and the second predicted frame.
C29_Witness ==
    /\ Returned
    /\ \E b, d, e \in 1..Len(chunks) :
          /\ b < d /\ d < e
          /\ chunks[b].clip_id = chunks[e].clip_id
          /\ chunks[d].clip_id = chunks[e].clip_id
          /\ IsPredicted(chunks[b]) /\ Cardinality(EmittedFrom(b)) = 1
          /\ chunks[d].is_keyframe /\ ~Survives(d)
          /\ IsPredicted(chunks[e]) /\ Cardinality(EmittedFrom(e)) > 1
          /\ ResolveOptions(policy, chunks[e].clip_id).dup_gap = 2
    /\ WithoutKeyPolicy(policy) # policy

----------------------------------------------------------------------------
(* C30: the header patch and the length of the prefix.                     *)

\* What find_header_offsets returns for the prefix of the accepted source,
\* and what update_header_counts makes of the prefix with it.
FoundInPrefix == find_header_offsets(base.prefix)
PatchedPrefix ==
    update_header_counts(base.prefix, FoundInPrefix.found, built.video_frames)

\* The offsets of a result, each of them once.
OffsetsOf(offsets) == {WriteOrder(offsets)[k] : k \in 1..Len(WriteOrder(offsets))}

(* C30: for the prefix of an accepted source, each offset that             *)
(* find_header_offsets returns leaves room for four bytes before the end   *)
(* of the prefix, and update_header_counts raises nothing and leaves the   *)
(* length of the prefix as it was.                                         *)
C30_PatchInsidePrefix ==
    (pc = "built" /\ SourceAccepted /\ FoundInPrefix.err = "") =>
        /\ \A off \in OffsetsOf(FoundInPrefix.found) : off + 4 <= Len(base.prefix)
        /\ PatchedPrefix.err = ""
        /\ Len(PatchedPrefix.prefix) = Len(base.prefix)

\* The same for the sources whose header chunks hold what they declare.
C30_SoundHeadersInside ==
    (pc = "built" /\ SourceAccepted /\ FoundInPrefix.err = ""
         /\ fault.kind \notin {"avih-short", "avih-overrun"}) =>
        /\ \A off \in OffsetsOf(FoundInPrefix.found) : off + 4 <= Len(base.prefix)
        /\ PatchedPrefix.err = ""
        /\ Len(PatchedPrefix.prefix) = Len(base.prefix)

\* An avih chunk declaring more than the prefix holds gave an offset beyond
\* the prefix, and the patch raised.
C30_OffsetBeyondPrefix ==
    /\ Raised /\ SourceAccepted /\ fault.kind = "avih-overrun"
    /\ result.err = StructError
    /\ FoundInPrefix.err = ""
    /\ \E off \in OffsetsOf(FoundInPrefix.found) : off + 4 > Len(base.prefix)

====
